---- MODULE Spec2Model ----
(***************************************************************************)
(* Model of the dashboard generators and the dev server of                 *)
(* rmallorybpc/automatic-guacamole:                                        *)
(*   scripts/build_dashboard_from_meta_issue.py   (the meta generator)     *)
(*   scripts/build_dashboard_from_repo_issues.py  (the all-issues one)     *)
(*   scripts/dev_dashboard_server.py              (the dev server)         *)
(*                                                                         *)
(* Text is modelled as a sequence of one-character strings, so that the    *)
(* regular expressions, whitespace normalisation and case folding of the   *)
(* source are computed character by character.                             *)
(***************************************************************************)
EXTENDS Integers, Sequences, FiniteSets, TLC

\* Python's None: NoneStr where a string is expected, None where a record is
None == [kind |-> "none"]

NoneStr == <<"None">>

(***************************************************************************)
(* Characters and elementary string functions (Python str / re).           *)
(***************************************************************************)
UpperChars ==
    <<"A","B","C","D","E","F","G","H","I","J","K","L","M","N","O","P","Q","R","S","T","U","V",
      "W","X","Y","Z">>

LowerChars ==
    <<"a","b","c","d","e","f","g","h","i","j","k","l","m","n","o","p","q","r","s","t","u","v",
      "w","x","y","z">>

DigitChars == <<"0","1","2","3","4","5","6","7","8","9">>

Range(s) == {s[i] : i \in DOMAIN s}

\* \s of the re module, restricted to the characters the model uses
IsSpace(c) == c \in {" ", "\t", "\n", "\r"}

\* \d
IsDigit(c) == c \in Range(DigitChars)

\* \w : what \b separates from everything else
IsWordChar(c) == c \in Range(UpperChars) \cup Range(LowerChars) \cup Range(DigitChars) \cup {"_"}

DigitVal(c) == (CHOOSE i \in DOMAIN DigitChars : DigitChars[i] = c) - 1

\* str.casefold / str.lower on one (ASCII) character
FoldChar(c) ==
    IF c \in Range(UpperChars)
    THEN LowerChars[CHOOSE i \in DOMAIN UpperChars : UpperChars[i] = c]
    ELSE c

casefold(s) == [i \in DOMAIN s |-> FoldChar(s[i])]

Drop(s, n) == SubSeq(s, n + 1, Len(s))

startswith(s, p) == Len(p) <= Len(s) /\ SubSeq(s, 1, Len(p)) = p

endswith(s, p) == Len(p) <= Len(s) /\ SubSeq(s, Len(s) - Len(p) + 1, Len(s)) = p

\* the length of the longest prefix of s whose characters all satisfy P
LeadCount(s, P(_)) ==
    CHOOSE k \in 0..Len(s) : (\A i \in 1..k : P(s[i])) /\ (k = Len(s) \/ ~P(s[k + 1]))

\* the length of the longest suffix of s whose characters all satisfy P
TrailCount(s, P(_)) ==
    CHOOSE k \in 0..Len(s) :
        (\A i \in (Len(s) - k + 1)..Len(s) : P(s[i])) /\ (k = Len(s) \/ ~P(s[Len(s) - k]))

lstrip(s) == Drop(s, LeadCount(s, IsSpace))

rstrip(s) == SubSeq(s, 1, Len(s) - TrailCount(s, IsSpace))

strip(s) == rstrip(lstrip(s))

IsHash(c) == c = "#"

\* int() of a non-empty run of digits
RECURSIVE DigitsToInt(_)
DigitsToInt(ds) ==
    IF ds = <<>> THEN 0
    ELSE 10 * DigitsToInt(SubSeq(ds, 1, Len(ds) - 1)) + DigitVal(ds[Len(ds)])

\* str() of a natural number
RECURSIVE IntToStr(_)
IntToStr(n) ==
    IF n < 10 THEN <<DigitChars[n + 1]>>
    ELSE IntToStr(n \div 10) \o <<DigitChars[(n % 10) + 1]>>

\* re.sub(r"\s+", " ", s): every run of whitespace becomes one blank
CollapseWs(s) ==
    LET marked == [i \in 1..Len(s) |->
                     [ch   |-> IF IsSpace(s[i]) THEN " " ELSE s[i],
                      keep |-> ~IsSpace(s[i]) \/ i = 1 \/ ~IsSpace(s[i - 1])]]
        kept == SelectSeq(marked, LAMBDA m : m.keep)
    IN  [i \in 1..Len(kept) |-> kept[i].ch]

normalize_ws(s) == CollapseWs(strip(s))

normalize_key(s) == casefold(normalize_ws(s))

IsLineBreak(c) == c \in {"\n", "\r"}

IsNotLineBreak(c) == ~IsLineBreak(c)

\* str.splitlines(): lines end at "\n", "\r" or "\r\n"; no empty last line
RECURSIVE splitlines(_)
splitlines(s) ==
    IF s = <<>> THEN <<>>
    ELSE LET k == LeadCount(s, IsNotLineBreak)
             brk == IF k = Len(s) THEN 0
                    ELSE IF s[k + 1] = "\r" /\ Len(s) >= k + 2 /\ s[k + 2] = "\n" THEN 2
                    ELSE 1
         IN  <<SubSeq(s, 1, k)>> \o splitlines(Drop(s, k + brk))

(***************************************************************************)
(* The category labels and the text the model feeds the parser.            *)
(***************************************************************************)
\* 'Grammar/Spelling'
Cat_GrammarSpelling ==
    <<"G","r","a","m","m","a","r","/","S","p","e","l","l","i","n","g">>

\* 'Deprecated/Potentially Outdated Content'
Cat_Deprecated ==
    <<"D","e","p","r","e","c","a","t","e","d","/","P","o","t","e","n","t","i","a","l","l","y",
      " ","O","u","t","d","a","t","e","d"," ","C","o","n","t","e","n","t">>

\* 'Suggested Content Updates'
Cat_Suggested ==
    <<"S","u","g","g","e","s","t","e","d"," ","C","o","n","t","e","n","t"," ","U","p","d","a",
      "t","e","s">>

\* 'Other (Support/Ambiguous/Process)'
Cat_Other ==
    <<"O","t","h","e","r"," ","(","S","u","p","p","o","r","t","/","A","m","b","i","g","u","o",
      "u","s","/","P","r","o","c","e","s","s",")">>

\* 'Placeholders (Template-Incomplete)'
Cat_Placeholders ==
    <<"P","l","a","c","e","h","o","l","d","e","r","s"," ","(","T","e","m","p","l","a","t","e",
      "-","I","n","c","o","m","p","l","e","t","e",")">>

\* '/issues/'
IssuesPath ==
    <<"/","i","s","s","u","e","s","/">>

\* '## Grammar/Spelling'
Line_H_Grammar ==
    <<"#","#"," ","G","r","a","m","m","a","r","/","S","p","e","l","l","i","n","g">>

\* '**other (support/ambiguous/process):**'
Line_H_OtherLower ==
    <<"*","*","o","t","h","e","r"," ","(","s","u","p","p","o","r","t","/","a","m","b","i","g",
      "u","o","u","s","/","p","r","o","c","e","s","s",")",":","*","*">>

\* 'Suggested Content Updates (see /issues/2)'
Line_H_SuggestedMore ==
    <<"S","u","g","g","e","s","t","e","d"," ","C","o","n","t","e","n","t"," ","U","p","d","a",
      "t","e","s"," ","(","s","e","e"," ","/","i","s","s","u","e","s","/","2",")">>

\* '- https://github.com/o/r/issues/1'
Line_Ref1 ==
    <<"-"," ","h","t","t","p","s",":","/","/","g","i","t","h","u","b",".","c","o","m","/","o",
      "/","r","/","i","s","s","u","e","s","/","1">>

\* '* /issues/2, /issues/3'
Line_Ref23 ==
    <<"*"," ","/","i","s","s","u","e","s","/","2",","," ","/","i","s","s","u","e","s","/","3">>

\* '### Misc /issues/3'
Line_Misc3 ==
    <<"#","#","#"," ","M","i","s","c"," ","/","i","s","s","u","e","s","/","3">>

\* 'see /issues/12abc'
Line_NoRef ==
    <<"s","e","e"," ","/","i","s","s","u","e","s","/","1","2","a","b","c">>

\* '### Other'
Line_H_OtherOnly ==
    <<"#","#","#"," ","O","t","h","e","r">>

\* 'Grammar/Spellings /issues/1'
Line_GrammarNoBoundary ==
    <<"G","r","a","m","m","a","r","/","S","p","e","l","l","i","n","g","s"," ","/","i","s","s",
      "u","e","s","/","1">>

KNOWN_CATEGORIES ==
    <<Cat_GrammarSpelling, Cat_Deprecated, Cat_Suggested, Cat_Other, Cat_Placeholders>>

(***************************************************************************)
(* The meta generator's section parser.                                    *)
(***************************************************************************)
\* _ISSUE_PATH_RE.finditer: "/issues/" and the whole run of digits after it, which
\* must end at a word boundary; two matches cannot overlap, so the matches are
\* the positions where the pattern matches
IssueRefAt(text, i) ==
    LET rest == Drop(text, i - 1 + Len(IssuesPath))
        k == LeadCount(rest, IsDigit)
    IN  /\ startswith(Drop(text, i - 1), IssuesPath)
        /\ k >= 1
        /\ (k = Len(rest) \/ ~IsWordChar(rest[k + 1]))

IssueNumberAt(text, i) ==
    LET rest == Drop(text, i - 1 + Len(IssuesPath))
    IN  DigitsToInt(SubSeq(rest, 1, LeadCount(rest, IsDigit)))

extract_issue_numbers(text) ==
    {IssueNumberAt(text, i) : i \in {j \in 1..Len(text) : IssueRefAt(text, j)}}

\* re.sub(r"^#{1,6}\s+", "", s)
StripHeadingMarker(s) ==
    LET k == LeadCount(s, IsHash)
    IN  IF k >= 1 /\ k <= 6 /\ Len(s) > k /\ IsSpace(s[k + 1]) THEN lstrip(Drop(s, k)) ELSE s

\* re.sub(r"^[-*+]\s+", "", s)
StripListMarker(s) ==
    IF Len(s) >= 2 /\ s[1] \in {"-", "*", "+"} /\ IsSpace(s[2]) THEN lstrip(Tail(s)) ELSE s

\* re.sub(r"^\d+[.)]\s+", "", s)
StripOrderedMarker(s) ==
    LET k == LeadCount(s, IsDigit)
    IN  IF k >= 1 /\ Len(s) >= k + 2 /\ s[k + 1] \in {".", ")"} /\ IsSpace(s[k + 2])
        THEN lstrip(Drop(s, k + 1))
        ELSE s

\* re.sub(r"^W(.+)W$", r"\1", s) for a wrapper W of one or two characters
StripWrapper(s, w) ==
    IF Len(s) >= 2 * Len(w) + 1 /\ startswith(s, w) /\ endswith(s, w)
    THEN SubSeq(s, Len(w) + 1, Len(s) - Len(w))
    ELSE s

\* re.sub(r":\s*$", "", s)
StripTrailingColon(s) ==
    LET t == rstrip(s)
    IN  IF t # <<>> /\ t[Len(t)] = ":" THEN SubSeq(t, 1, Len(t) - 1) ELSE s

strip_md_decorations(s) ==
    LET s1 == strip(s)
        s2 == StripHeadingMarker(s1)
        s3 == StripListMarker(s2)
        s4 == StripOrderedMarker(s3)
        s5 == StripWrapper(s4, <<"*", "*">>)
        s6 == StripWrapper(s5, <<"_", "_">>)
        s7 == StripWrapper(s6, <<"*">>)
        s8 == StripWrapper(s7, <<"_">>)
        s9 == StripTrailingColon(s8)
    IN  normalize_ws(s9)

known_keys == [i \in DOMAIN KNOWN_CATEGORIES |-> normalize_key(KNOWN_CATEGORIES[i])]

\* the test of line 163 with the blank after the known key left out
IsCategoryMarker_no_boundary(candidate) ==
    LET key == normalize_key(candidate)
    IN  /\ candidate # <<>>
        /\ \E i \in DOMAIN known_keys :
              key = known_keys[i] \/ startswith(key, known_keys[i])

\* the test of line 163: a non-empty candidate whose key is a known key, or
\* starts with a known key and a blank
IsCategoryMarker(candidate) ==
    LET key == normalize_key(candidate)
    IN  /\ candidate # <<>>
        /\ \E i \in DOMAIN known_keys :
              key = known_keys[i] \/ startswith(key, Append(known_keys[i], " "))

(***************************************************************************)
(* Timestamps.  An ISO-8601 timestamp string is modelled by its fields:    *)
(* [kind |-> "iso", day, hour, tz] with day counted from 1970-01-01 and tz *)
(* the text of its UTC-offset suffix ("" for none); any other text is      *)
(* [kind |-> "text", text].  A datetime is [day, hour, utcoffset] with     *)
(* utcoffset in hours and aware = FALSE for a naive datetime.  A date is a  *)
(* count of days from 1970-01-01; its isoformat() is the string            *)
(* "YYYY-MM-DD".                                                           *)
(***************************************************************************)
ValueError == [kind |-> "ValueError"]

TzSuffixes == {"Z", "", "+00:00", "+02:00", "-05:00"}

\* the hours of a "+HH:00" / "-HH:00" suffix
OffsetHours(tz) ==
    CASE tz = "+00:00" -> 0
      [] tz = "+02:00" -> 2
      [] tz = "-05:00" -> 0 - 5

parse_iso_datetime(value) ==
    IF value = None \/ value.kind # "iso" THEN ValueError
    ELSE LET tz == IF value.tz = "Z" THEN "+00:00" ELSE value.tz
         IN  [day |-> value.day, hour |-> value.hour, aware |-> tz # "",
              utcoffset |-> IF tz = "" THEN 0 ELSE OffsetHours(tz)]

\* the instant of an aware datetime, in hours since 1970-01-01T00:00:00Z
Instant(d) == d.day * 24 + d.hour - d.utcoffset

EpochDatetime == [day |-> 0, hour |-> 0, aware |-> TRUE, utcoffset |-> 0]

\* "1970-01-01"
EpochDate == <<"1","9","7","0","-","0","1","-","0","1">>

\* n as two digits
TwoDigits(n) == <<DigitChars[(n \div 10) + 1], DigitChars[(n % 10) + 1]>>

\* date.isoformat() of the date `day` days after 1970-01-01, for the first
\* three months of 1970
date_isoformat(day) ==
    IF day < 31 THEN <<"1","9","7","0","-","0","1","-">> \o TwoDigits(day + 1)
    ELSE IF day < 59 THEN <<"1","9","7","0","-","0","2","-">> \o TwoDigits(day - 30)
    ELSE <<"1","9","7","0","-","0","3","-">> \o TwoDigits(day - 58)

\* the key is a string in every branch: the date of the parsed timestamp, else
\* the first ten characters of the text, else "1970-01-01"
date_yyyy_mm_dd(iso_dt) ==
    LET d == parse_iso_datetime(iso_dt)
    IN  IF d # ValueError THEN date_isoformat(d.day)
        ELSE IF iso_dt # None /\ iso_dt.kind = "text" /\ Len(iso_dt.text) >= 10
        THEN SubSeq(iso_dt.text, 1, 10)
        ELSE EpochDate

\* the order of the characters the model uses, as Python compares them
AsciiOrder ==
    <<"\t", "\n", "\r", " ", "#", "(", ")", "*", "+", ",", "-", ".", "/">> \o DigitChars
    \o <<":">> \o UpperChars \o <<"_">> \o LowerChars \o <<"|">>

Ord(c) == CHOOSE i \in DOMAIN AsciiOrder : AsciiOrder[i] = c

\* a < b for two Python strings
StrLess(a, b) ==
    \E k \in 0..Len(a) :
        /\ k <= Len(b)
        /\ SubSeq(a, 1, k) = SubSeq(b, 1, k)
        /\ \/ k = Len(a) /\ k < Len(b)
           \/ k < Len(a) /\ k < Len(b) /\ Ord(a[k + 1]) < Ord(b[k + 1])

\* a < b for two time-series keys: sorted(counts_by_date.keys()) compares them
\* as strings
DayKeyLess(a, b) == StrLess(a, b)

(***************************************************************************)
(* The aggregation both generators end with (the code is the same in both  *)
(* files): sort, time series, product-area breakdown, validation.          *)
(***************************************************************************)
\* a sort that ignores the timestamp
sort_key_number_only(f) == <<0, f.issue_number>>

\* _sort_key
sort_key(f) ==
    LET p == parse_iso_datetime(f.date_discovered)
        d == IF p = ValueError THEN EpochDatetime ELSE p
        utc == IF ~d.aware THEN [d EXCEPT !.aware = TRUE, !.utcoffset = 0] ELSE d
    IN  <<Instant(utc), f.issue_number>>

KeyLessEq(k1, k2) == k1[1] < k2[1] \/ (k1[1] = k2[1] /\ k1[2] <= k2[2])

\* list.sort(key=_sort_key): a stable sort, here by insertion from the left
RECURSIVE InsertSorted(_, _)
InsertSorted(sorted, f) ==
    IF sorted = <<>> THEN <<f>>
    ELSE LET last == sorted[Len(sorted)]
         IN  IF KeyLessEq(sort_key(last), sort_key(f)) THEN Append(sorted, f)
             ELSE Append(InsertSorted(SubSeq(sorted, 1, Len(sorted) - 1), f), last)

RECURSIVE sort_features(_)
sort_features(fs) ==
    IF fs = <<>> THEN <<>>
    ELSE InsertSorted(sort_features(SubSeq(fs, 1, Len(fs) - 1)), fs[Len(fs)])

\* sorted(counts_by_date.keys())
RECURSIVE SortedDays(_)
SortedDays(S) ==
    IF S = {} THEN <<>>
    ELSE LET m == CHOOSE x \in S : \A y \in S \ {x} : DayKeyLess(x, y)
         IN  <<m>> \o SortedDays(S \ {m})

counts_by_date(fs) ==
    [day \in {date_yyyy_mm_dd(fs[i].date_discovered) : i \in DOMAIN fs} |->
        Cardinality({i \in DOMAIN fs : date_yyyy_mm_dd(fs[i].date_discovered) = day})]

RECURSIVE SumCounts(_, _)
SumCounts(rows, n) == IF n = 0 THEN 0 ELSE rows[n].count + SumCounts(rows, n - 1)

\* rows whose cumulative is not accumulated
ts_rows_not_accumulated(fs) ==
    LET counts == counts_by_date(fs)
        days == SortedDays(DOMAIN counts)
    IN  [i \in DOMAIN days |->
            [date |-> days[i], count |-> counts[days[i]], cumulative |-> counts[days[i]]]]

\* ts_rows: one row per key in sorted order, with the running total
ts_rows(fs) ==
    LET counts == counts_by_date(fs)
        days == SortedDays(DOMAIN counts)
        plain == [i \in DOMAIN days |-> [date |-> days[i], count |-> counts[days[i]]]]
    IN  [i \in DOMAIN days |->
            [date |-> days[i], count |-> counts[days[i]], cumulative |-> SumCounts(plain, i)]]

\* a breakdown that counts every area once
counts_by_area_once(fs) == [area \in {fs[i].product_area : i \in DOMAIN fs} |-> 1]

counts_by_area(fs) ==
    [area \in {fs[i].product_area : i \in DOMAIN fs} |->
        Cardinality({i \in DOMAIN fs : fs[i].product_area = area})]

\* key=lambda r: (-r["count"], r["name"])
AreaRowLess(r1, r2) ==
    r1.count > r2.count \/ (r1.count = r2.count /\ StrLess(r1.name, r2.name))

\* area_rows.sort(...): the names differ, so the order is total
RECURSIVE SortedAreaRows(_)
SortedAreaRows(S) ==
    IF S = {} THEN <<>>
    ELSE LET m == CHOOSE x \in S : \A y \in S \ {x} : AreaRowLess(x, y)
         IN  <<m>> \o SortedAreaRows(S \ {m})

area_rows(fs) ==
    LET counts == counts_by_area(fs)
    IN  SortedAreaRows({[name |-> a, count |-> counts[a]] : a \in DOMAIN counts})

\* the dashboard document of lines 287-306 (generated_at and the constant
\* empty arrays are left out)
assemble_dashboard(sorted) ==
    [summary |-> [total_features |-> Len(sorted)],
     time_series |-> [time_series |-> ts_rows(sorted), total |-> Len(sorted)],
     source_breakdown |-> [sources |-> <<[name |-> "issue", count |-> Len(sorted)]>>],
     product_area_breakdown |-> [product_areas |-> area_rows(sorted)],
     features |-> sorted]

\* the validations of lines 308-316: TRUE when none raises
validation_ok(dashboard) ==
    /\ dashboard.summary.total_features = Len(dashboard.features)
    /\ dashboard.time_series.total = Len(dashboard.features)
    /\ SumCounts(dashboard.product_area_breakdown.product_areas,
                 Len(dashboard.product_area_breakdown.product_areas)) = Len(dashboard.features)

RuntimeError == [kind |-> "RuntimeError"]

\* build_dashboard from the sort on: the document, or RuntimeError
aggregate(fs) ==
    LET dashboard == assemble_dashboard(sort_features(fs))
    IN  IF validation_ok(dashboard) THEN dashboard ELSE RuntimeError
\* 'Issue #'
Str_IssueHash ==
    <<"I","s","s","u","e"," ","#">>

\* 'Fix typo in intro'
Title_Fetched ==
    <<"F","i","x"," ","t","y","p","o"," ","i","n"," ","i","n","t","r","o">>

\* '0'
Hdr_Zero ==
    <<"0">>

\* '59'
Hdr_Some ==
    <<"5","9">>

\* ' 0_0'
Hdr_ZeroSpelled ==
    <<" ","0","_","0">>

\* 'n/a'
Hdr_Bad ==
    <<"n","/","a">>


(***************************************************************************)
(* Bounds and menus of the generator runs.                                 *)
(***************************************************************************)
\* the longest body the parser is run on by itself, in lines
MaxLines == 4

\* the longest meta-issue body of a whole run of the generator, in lines
MaxBodyLines == 3

DEFAULT_ISSUE_NUMBER == 223

LineMenu ==
    {Line_H_Grammar, Line_H_OtherLower, Line_H_SuggestedMore, Line_Ref1, Line_Ref23,
     Line_Misc3, Line_NoRef}

\* "\n".join of the lines, each line ended by "\n"
RECURSIVE JoinLines(_)
JoinLines(ls) == IF ls = <<>> THEN <<>> ELSE Head(ls) \o <<"\n">> \o JoinLines(Tail(ls))

BodiesUpTo(n) == {JoinLines(ls) : ls \in UNION {[1..k -> LineMenu] : k \in 0..n}}

Bodies == BodiesUpTo(MaxBodyLines)

\* the lines of the bodies the parser is run on by itself
ParseLineMenu == LineMenu \cup {Line_H_OtherOnly, Line_GrammarNoBoundary}

ParseBodies == {JoinLines(ls) : ls \in UNION {[1..k -> ParseLineMenu] : k \in 0..MaxLines}}

\* the meta issue's own number: one the bodies reference, and the default
MetaNumbers == {3, DEFAULT_ISSUE_NUMBER}

Ts(day, hour, tz) == [kind |-> "iso", day |-> day, hour |-> hour, tz |-> tz]

\* the clock of the run: _utc_now() and _iso_now_utc()
NowDatetime == [day |-> 40, hour |-> 12, aware |-> TRUE, utcoffset |-> 0]

iso_now_utc == Ts(NowDatetime.day, NowDatetime.hour, "+00:00")

MetaCreatedMenu == {Ts(20, 9, "Z"), None, [kind |-> "text", text |-> <<>>]}

\* X-RateLimit-Remaining of a response: absent, or its text
RemainingMenu == {NoneStr, Hdr_Zero, Hdr_ZeroSpelled, Hdr_Some, Hdr_Bad}

\* the JSON of a fetched issue: a dict with the fields read, or not a dict
NotADict == [kind |-> "not_a_dict"]

IssueJsonMenu ==
    {[kind |-> "dict", title |-> Title_Fetched, created_at |-> Ts(20, 23, "-05:00")],
     [kind |-> "dict", title |-> Title_Fetched, created_at |-> Ts(21, 1, "Z")],
     [kind |-> "dict", title |-> NoneStr, created_at |-> None],
     [kind |-> "dict", title |-> <<>>, created_at |-> [kind |-> "text", text |-> <<>>]],
     NotADict}

\* what fetch_issue can meet: a 200 with JSON and headers, an HTTP error
\* (its headers are dropped by github_get_json), a network error
IssueResponses ==
    [status : {"ok"}, json : IssueJsonMenu, remaining : RemainingMenu]
    \cup [status : {"http_error"}, json : {None}, remaining : RemainingMenu]
    \cup [status : {"network_error"}, json : {None}, remaining : {NoneStr}]

(***************************************************************************)
(* The meta generator: parse_meta_issue_body and build_dashboard.          *)
(***************************************************************************)
EmptyMapping == [n \in {} |-> <<>>]

\* parse_line with the test "n not in mapping" left out: the last category wins
parse_line_last_wins(st, line) ==
    LET candidate == strip_md_decorations(line)
        refs == extract_issue_numbers(line)
    IN  IF IsCategoryMarker(candidate)
        THEN [st EXCEPT !.current_category = candidate]
        ELSE IF st.current_category = NoneStr THEN st
        ELSE [st EXCEPT !.mapping =
                [n \in DOMAIN st.mapping \cup refs |->
                    IF n \in refs THEN st.current_category ELSE st.mapping[n]]]

\* parse_line keeping the raw line, not the stripped candidate, as the category
parse_line_raw_label(st, line) ==
    LET candidate == strip_md_decorations(line)
        refs == extract_issue_numbers(line)
    IN  IF IsCategoryMarker(candidate)
        THEN [st EXCEPT !.current_category = line]
        ELSE IF st.current_category = NoneStr THEN st
        ELSE [st EXCEPT !.mapping =
                [n \in DOMAIN st.mapping \cup refs |->
                    IF n \in DOMAIN st.mapping THEN st.mapping[n] ELSE st.current_category]]

\* parse_line where any line that starts like a markdown heading ends the
\* current section, recognized or not
parse_line_unknown_heading_resets(st, line) ==
    LET candidate == strip_md_decorations(line)
        refs == extract_issue_numbers(line)
    IN  IF IsCategoryMarker(candidate)
        THEN [st EXCEPT !.current_category = candidate]
        ELSE IF line # <<>> /\ line[1] = "#"
        THEN [st EXCEPT !.current_category = NoneStr]
        ELSE IF st.current_category = NoneStr THEN st
        ELSE [st EXCEPT !.mapping =
                [n \in DOMAIN st.mapping \cup refs |->
                    IF n \in DOMAIN st.mapping THEN st.mapping[n] ELSE st.current_category]]

\* one iteration of the loop of parse_meta_issue_body over a line
parse_line(st, line) ==
    LET candidate == strip_md_decorations(line)
        refs == extract_issue_numbers(line)
    IN  IF IsCategoryMarker(candidate)
        THEN [st EXCEPT !.current_category = candidate]
        ELSE IF st.current_category = NoneStr THEN st
        ELSE [st EXCEPT !.mapping =
                [n \in DOMAIN st.mapping \cup refs |->
                    IF n \in DOMAIN st.mapping THEN st.mapping[n] ELSE st.current_category]]

\* issue_to_category.pop(meta_issue_number, None)
pop(m, key) == [n \in DOMAIN m \ {key} |-> m[n]]

\* sorted(issue_to_category.keys())
RECURSIVE sorted_numbers(_)
sorted_numbers(S) ==
    IF S = {} THEN <<>>
    ELSE LET m == CHOOSE x \in S : \A y \in S : x <= y
         IN  <<m>> \o sorted_numbers(S \ {m})

\* f"Issue #{n}"
issue_title(n) == Str_IssueHash \o IntToStr(n)

MetaFeature(n, title, category, date) ==
    [issue_number |-> n, title |-> title, source_type |-> "issue", product_area |-> category,
     date_discovered |-> date]

placeholder(n, category, created) == MetaFeature(n, issue_title(n), category, created)

\* the digits part of the argument of int(): the text without the blanks
\* around it and without its sign
int_digits(s) ==
    LET t == strip(s)
    IN  IF t # <<>> /\ t[1] \in {"+", "-"} THEN Tail(t) ELSE t

\* int(s) does not raise ValueError: blanks, an optional sign, and digits with
\* single underscores between them
is_int(s) ==
    LET body == int_digits(s)
    IN  /\ body # <<>>
        /\ \A i \in DOMAIN body : IsDigit(body[i]) \/ body[i] = "_"
        /\ IsDigit(body[1]) /\ IsDigit(body[Len(body)])
        /\ \A i \in 1..(Len(body) - 1) : ~(body[i] = "_" /\ body[i + 1] = "_")

\* int(s) where is_int(s)
int_value(s) ==
    LET n == DigitsToInt(SelectSeq(int_digits(s), IsDigit))
    IN  IF strip(s)[1] = "-" THEN 0 - n ELSE n

\* `text or default`: None and the empty string count as missing
falsy(text) == text = NoneStr \/ text = <<>>

\* `timestamp or default`: None and the empty string count as missing
falsy_timestamp(value) == value = None \/ value = [kind |-> "text", text |-> <<>>]

\* the header reports that no request is left: int(remaining) <= 0
reports_exhaustion(remaining) ==
    remaining # NoneStr /\ is_int(remaining) /\ int_value(remaining) <= 0

\* limit_hit with "< 0" for "<= 0"
limit_hit_strict(remaining, tok) ==
    /\ remaining # NoneStr
    /\ ~tok
    /\ is_int(remaining)
    /\ int_value(remaining) < 0

\* lines 227-233: does this response switch the run to placeholder mode
limit_hit(remaining, tok) ==
    /\ remaining # NoneStr
    /\ ~tok
    /\ is_int(remaining)
    /\ int_value(remaining) <= 0

\* fetch_step whose rate-limited branch skips the issue without a record
fetch_step_drops_skipped(n, category, limited, tok, created, resp) ==
    IF limited
    THEN [appended |-> <<>>, rate_limited |-> TRUE, outcome |-> "skipped"]
    ELSE IF resp.status = "ok" /\ resp.json # NotADict
    THEN [appended |->
            <<MetaFeature(n,
                          IF ~falsy(resp.json.title) THEN resp.json.title ELSE issue_title(n),
                          category,
                          IF ~falsy_timestamp(resp.json.created_at) THEN resp.json.created_at ELSE created)>>,
          rate_limited |-> limit_hit(resp.remaining, tok),
          outcome |-> "ok"]
    ELSE [appended |-> <<placeholder(n, category, created)>>, rate_limited |-> FALSE,
          outcome |-> "failed"]

\* one iteration of the loop of lines 192-247 for issue n, given the response
\* fetch_issue would meet: the features appended, the new rate_limited, and
\* the outcome: "skipped" (fetch_issue not called), "ok", or "failed" (an
\* exception from fetch_issue or from reading its result)
fetch_step(n, category, limited, tok, created, resp) ==
    IF limited
    THEN [appended |-> <<placeholder(n, category, created)>>, rate_limited |-> TRUE,
          outcome |-> "skipped"]
    ELSE IF resp.status = "ok" /\ resp.json # NotADict
    THEN [appended |->
            <<MetaFeature(n,
                          IF ~falsy(resp.json.title) THEN resp.json.title ELSE issue_title(n),
                          category,
                          IF ~falsy_timestamp(resp.json.created_at) THEN resp.json.created_at ELSE created)>>,
          rate_limited |-> limit_hit(resp.remaining, tok),
          outcome |-> "ok"]
    ELSE [appended |-> <<placeholder(n, category, created)>>, rate_limited |-> FALSE,
          outcome |-> "failed"]

(***************************************************************************)
(* The all-issues generator: the recency filter and the keyword classifier.*)
(***************************************************************************)
\* 'closed'
State_Closed ==
    <<"c","l","o","s","e","d">>

\* 'open'
State_Open ==
    <<"o","p","e","n">>

\* 'unknown'
State_Unknown ==
    <<"u","n","k","n","o","w","n">>

\* 'MS Learn Module Update Request'
MODULE_UPDATE_REQUEST_CATEGORY ==
    <<"M","S"," ","L","e","a","r","n"," ","M","o","d","u","l","e"," ","U","p","d","a","t","e",
      " ","R","e","q","u","e","s","t">>

\* ' | '
LabelSeparator ==
    <<" ","|"," ">>

\* the words of _TITLE_PREFIX_RE, each preceded by \s*
TitlePrefixWords ==
    <<<<"m","s">>,
      <<"l","e","a","r","n">>,
      <<"m","o","d","u","l","e">>,
      <<"u","p","d","a","t","e">>,
      <<"r","e","q","u","e","s","t">>,
      <<":">>>>

GrammarKeywords ==
    <<<<"g","r","a","m","m","a","r">>,
      <<"s","p","e","l","l","i","n","g">>,
      <<"t","y","p","o">>,
      <<"t","y","p","o","s">>,
      <<"m","i","s","s","p","e","l","l","i","n","g">>,
      <<"p","u","n","c","t","u","a","t","i","o","n">>>>

PlaceholderKeywords ==
    <<<<"p","l","a","c","e","h","o","l","d","e","r">>,
      <<"t","e","m","p","l","a","t","e">>,
      <<"t","b","d">>,
      <<"r","e","p","l","a","c","e","_","w","i","t","h">>,
      <<"r","e","p","l","a","c","e"," ","w","i","t","h">>,
      <<"l","o","r","e","m"," ","i","p","s","u","m">>,
      <<"t","o","d","o",":">>>>

DeprecatedKeywords ==
    <<<<"d","e","p","r","e","c","a","t","e","d">>,
      <<"o","u","t","d","a","t","e","d">>,
      <<"o","b","s","o","l","e","t","e">>,
      <<"n","o"," ","l","o","n","g","e","r">>,
      <<"o","l","d"," ","v","e","r","s","i","o","n">>,
      <<"d","e","p","r","e","c","a","t","i","o","n">>>>

SuggestedKeywords ==
    <<<<"s","u","g","g","e","s","t">>,
      <<"s","u","g","g","e","s","t","i","o","n">>,
      <<"c","o","n","t","e","n","t"," ","u","p","d","a","t","e">>,
      <<"u","p","d","a","t","e"," ","c","o","n","t","e","n","t">>,
      <<"n","e","e","d","s"," ","u","p","d","a","t","e">>,
      <<"f","i","x"," ","c","o","n","t","e","n","t">>,
      <<"i","m","p","r","o","v","e">>,
      <<"c","l","a","r","i","f","y">>,
      <<"a","d","d"," ","s","e","c","t","i","o","n">>>>

hide_closed_older_than_days == 30

\* _parse_iso_datetime_or_none: an aware datetime, or None
parse_iso_datetime_or_none(value) ==
    IF value = None \/ (value.kind = "text" /\ value.text = <<>>) THEN None
    ELSE LET d == parse_iso_datetime(value)
         IN  IF d = ValueError THEN None
             ELSE IF ~d.aware THEN [d EXCEPT !.aware = TRUE, !.utcoffset = 0]
             ELSE d

\* a filter that drops the issue closed exactly `days` days ago
should_include_issue_strict(issue, now_utc, days) ==
    LET state == casefold(IF issue.state = NoneStr THEN <<>> ELSE issue.state)
        closed_at == parse_iso_datetime_or_none(issue.closed_at)
        fallback == parse_iso_datetime_or_none(issue.updated_at)
        effective_closed_dt == IF closed_at # None THEN closed_at ELSE fallback
    IN  IF state # State_Closed THEN TRUE
        ELSE IF effective_closed_dt = None THEN TRUE
        ELSE Instant(now_utc) - Instant(effective_closed_dt) < days * 24

should_include_issue(issue, now_utc, days) ==
    LET state == casefold(IF issue.state = NoneStr THEN <<>> ELSE issue.state)
        closed_at == parse_iso_datetime_or_none(issue.closed_at)
        fallback == parse_iso_datetime_or_none(issue.updated_at)
        effective_closed_dt == IF closed_at # None THEN closed_at ELSE fallback
    IN  IF state # State_Closed THEN TRUE
        ELSE IF effective_closed_dt = None THEN TRUE
        ELSE Instant(now_utc) - Instant(effective_closed_dt) <= days * 24

\* re: each word of the pattern after optional whitespace, from the start
RECURSIVE MatchWords(_, _)
MatchWords(s, words) ==
    IF words = <<>> THEN TRUE
    ELSE LET r == lstrip(s)
         IN  startswith(r, Head(words)) /\ MatchWords(Drop(r, Len(Head(words))), Tail(words))

\* _category_from_title: re.IGNORECASE is a comparison of the folded text
category_from_title(title) ==
    IF MatchWords(casefold(title), TitlePrefixWords) THEN MODULE_UPDATE_REQUEST_CATEGORY
    ELSE NoneStr

\* needle in haystack
Contains(haystack, needle) ==
    \E i \in 0..(Len(haystack) - Len(needle)) : SubSeq(haystack, i + 1, i + Len(needle)) = needle

text_contains_any(haystack, needles) ==
    \E i \in DOMAIN needles : Contains(casefold(haystack), casefold(needles[i]))

\* sep.join(parts)
RECURSIVE Join(_, _)
Join(sep, parts) ==
    IF parts = <<>> THEN <<>>
    ELSE IF Len(parts) = 1 THEN parts[1]
    ELSE parts[1] \o sep \o Join(sep, Tail(parts))

classifier_blob(title, labels, body) ==
    LET title_norm == normalize_ws(title)
        label_blob == Join(LabelSeparator, [i \in DOMAIN labels |-> normalize_ws(labels[i])])
    IN  strip(Join(<<"\n">>, <<title_norm, label_blob, body>>))

\* a classifier that tries the deprecated keywords before the grammar keywords
categorize_deprecated_first(title, labels, body) ==
    LET special == category_from_title(normalize_ws(title))
        blob == classifier_blob(title, labels, body)
    IN  IF special # NoneStr THEN special
        ELSE IF text_contains_any(blob, DeprecatedKeywords) THEN Cat_Deprecated
        ELSE IF text_contains_any(blob, GrammarKeywords) THEN Cat_GrammarSpelling
        ELSE IF text_contains_any(blob, PlaceholderKeywords) THEN Cat_Placeholders
        ELSE IF text_contains_any(blob, SuggestedKeywords) THEN Cat_Suggested
        ELSE Cat_Other

categorize_issue_best_guess(title, labels, body) ==
    LET special == category_from_title(normalize_ws(title))
        blob == classifier_blob(title, labels, body)
    IN  IF special # NoneStr THEN special
        ELSE IF text_contains_any(blob, GrammarKeywords) THEN Cat_GrammarSpelling
        ELSE IF text_contains_any(blob, PlaceholderKeywords) THEN Cat_Placeholders
        ELSE IF text_contains_any(blob, DeprecatedKeywords) THEN Cat_Deprecated
        ELSE IF text_contains_any(blob, SuggestedKeywords) THEN Cat_Suggested
        ELSE Cat_Other
\* 'MS Learn Module Update Request: Intro to Widgets'
Title_Module ==
    <<"M","S"," ","L","e","a","r","n"," ","M","o","d","u","l","e"," ","U","p","d","a","t","e",
      " ","R","e","q","u","e","s","t",":"," ","I","n","t","r","o"," ","t","o"," ","W","i","d",
      "g","e","t","s">>

\* 'Fix typo'
Title_Typo ==
    <<"F","i","x"," ","t","y","p","o">>

\* 'Question about billing'
Title_Plain ==
    <<"Q","u","e","s","t","i","o","n"," ","a","b","o","u","t"," ","b","i","l","l","i","n","g">>

\* 'This API is deprecated, see the template'
Body_Deprecated ==
    <<"T","h","i","s"," ","A","P","I"," ","i","s"," ","d","e","p","r","e","c","a","t","e","d",
      ","," ","s","e","e"," ","t","h","e"," ","t","e","m","p","l","a","t","e">>

\* ''
Body_Empty ==
    <<>>

\* 'Suggestion'
Label_Suggest ==
    <<"S","u","g","g","e","s","t","i","o","n">>

\* '1970-01-06T25:00:00Z'
Text_BadHour ==
    <<"1","9","7","0","-","0","1","-","0","6","T","2","5",":","0","0",":","0","0","Z">>

\* 'not-a-date-at-all'
Text_NotADate ==
    <<"n","o","t","-","a","-","d","a","t","e","-","a","t","-","a","l","l">>

\* '  ms   learn module update request :typo'
Title_ModuleLoose ==
    <<" "," ","m","s"," "," "," ","l","e","a","r","n"," ","m","o","d","u","l","e"," ","u","p",
      "d","a","t","e"," ","r","e","q","u","e","s","t"," ",":","t","y","p","o">>

\* 'MS Learn Module Update Request typo'
Title_ModuleNoColon ==
    <<"M","S"," ","L","e","a","r","n"," ","M","o","d","u","l","e"," ","U","p","d","a","t","e",
      " ","R","e","q","u","e","s","t"," ","t","y","p","o">>

\* 'There is a typo in the deprecated section'
Body_TypoDeprecated ==
    <<"T","h","e","r","e"," ","i","s"," ","a"," ","t","y","p","o"," ","i","n"," ","t","h","e",
      " ","d","e","p","r","e","c","a","t","e","d"," ","s","e","c","t","i","o","n">>

\* 'Please improve this page'
Body_Improve ==
    <<"P","l","e","a","s","e"," ","i","m","p","r","o","v","e"," ","t","h","i","s"," ","p","a",
      "g","e">>

\* 'This is no  longer\ntrue'
Body_SplitKeyword ==
    <<"T","h","i","s"," ","i","s"," ","n","o"," "," ","l","o","n","g","e","r","\n","t","r","u",
      "e">>

\* 'TBD'
Label_Tbd ==
    <<"T","B","D">>

\* 'obsolete  docs'
Label_Obsolete ==
    <<"o","b","s","o","l","e","t","e"," "," ","d","o","c","s">>

\* 'Closed'
State_ClosedUpper ==
    <<"C","l","o","s","e","d">>


(***************************************************************************)
(* The all-issues generator: paging and the feature of an issue.           *)
(***************************************************************************)
\* the pages the model lets the listing have before it runs empty
MaxPages == 2

\* labels_raw -> labels (lines 285-291)
label_names(labels_raw) ==
    LET named == SelectSeq(labels_raw,
                           LAMBDA lr : lr.kind = "str" \/ (lr.kind = "dict" /\ lr.name # NoneStr /\ lr.name # <<>>))
    IN  [i \in DOMAIN named |-> IF named[i].kind = "str" THEN named[i].text ELSE named[i].name]

\* lines 277-306: the Feature of an included issue
repo_feature(it) ==
    LET title == IF ~falsy(it.title) THEN it.title ELSE issue_title(it.number)
        body == IF it.body # NoneStr THEN it.body ELSE <<>>
    IN  [issue_number |-> it.number,
         title |-> title,
         state |-> IF ~falsy(it.state) THEN it.state ELSE State_Unknown,
         source_type |-> "issue",
         product_area |-> categorize_issue_best_guess(title, label_names(it.labels), body),
         date_discovered |-> IF ~falsy_timestamp(it.created_at) THEN it.created_at ELSE iso_now_utc]

\* lines 248-251: the items of a page that are issues, not pull requests
page_issues(items) == SelectSeq(items, LAMBDA it : it.kind = "dict" /\ ~it.pull_request)

\* lines 268-306: the features of the issues the filter keeps, in order
repo_features(issues_) ==
    LET kept == SelectSeq(issues_,
                          LAMBDA it : should_include_issue(it, NowDatetime, hide_closed_older_than_days))
    IN  [i \in DOMAIN kept |-> repo_feature(kept[i])]

RepoIssue(n, title, state, body, labels, created, closed, updated, pr) ==
    [kind |-> "dict", number |-> n, title |-> title, state |-> state, body |-> body,
     labels |-> labels, created_at |-> created, closed_at |-> closed, updated_at |-> updated,
     pull_request |-> pr]

Issue_OpenTypo ==
    RepoIssue(1, Title_Typo, State_Open, Body_Empty, <<>>, Ts(5, 8, "Z"), None, Ts(6, 8, "Z"), FALSE)

Issue_ClosedAtLimit ==
    RepoIssue(2, Title_Module, State_Closed, Body_Deprecated, <<>>, Ts(5, 8, "Z"),
              Ts(10, 14, "+02:00"), Ts(39, 0, "Z"), FALSE)

Issue_ClosedTooOld ==
    RepoIssue(3, Title_Plain, State_Closed, Body_Deprecated,
              <<[kind |-> "dict", name |-> Label_Suggest]>>, Ts(5, 23, "-05:00"),
              Ts(10, 11, "Z"), Ts(39, 0, "Z"), FALSE)

Issue_ClosedNoDates ==
    RepoIssue(4, NoneStr, State_Closed, NoneStr, <<[kind |-> "str", text |-> Label_Suggest]>>,
              None, [kind |-> "text", text |-> Text_NotADate], None, FALSE)

Issue_OpenNoCreated ==
    RepoIssue(6, <<>>, <<>>, Body_Empty, <<>>, [kind |-> "text", text |-> <<>>], None, None, FALSE)

Issue_PullRequest ==
    RepoIssue(5, Title_Plain, State_Open, Body_Empty, <<>>, Ts(7, 8, "Z"), None, None, TRUE)

PageMenu ==
    {<<>>,
     <<Issue_OpenTypo, Issue_PullRequest>>,
     <<Issue_ClosedAtLimit, Issue_ClosedTooOld>>,
     <<Issue_ClosedNoDates, NotADict, Issue_OpenNoCreated>>,
     <<Issue_ClosedTooOld, Issue_OpenTypo>>}

\* what list_issues_page can meet for page p: a list and headers, or an error
\* (HTTP, network, or JSON that is not a list); past MaxPages the list is empty
PageResponses(p) ==
    [status : {"ok"}, items : IF p <= MaxPages THEN PageMenu ELSE {<<>>},
     remaining : RemainingMenu]
    \cup [status : {"error"}, items : {<<>>}, remaining : {NoneStr}]

(***************************************************************************)
(* The dev server: requests, the scripts they run and the files these      *)
(* write.  A file is absent or a sequence of units of length (so many      *)
(* bytes each); the document of a run is the units 1..len of that run, and *)
(* a write call puts down some of them, in order, at the writer's offset.  *)
(***************************************************************************)
\* the connections the model lets the server accept
MaxRequests == 2

\* the most write calls the file object of open(out_path, "w") makes in a
\* generator's own run to hand the document to its file, the last one at close
MaxDocWrites == 2

\* the most units a write call puts down: those of a full buffer
MaxPieceLen == 2

\* the most units a document written under the dev server has
MaxDocLen == 3

\* the units one read call of copyfile asks for (shutil.copyfileobj reads 64
\* KiB at a time)
MaxReadLen == 2

\* the output file of a run between open and close: emptied, and `written`
\* write calls of the document in it
PartialFile(written) == [kind |-> "partial", written |-> written]

Requests == 1..MaxRequests

Script_Meta == "scripts/build_dashboard_from_meta_issue.py"

Script_Repo == "scripts/build_dashboard_from_repo_issues.py"

Scripts == {Script_Meta, Script_Repo}

\* DEFAULT_OUT of the two generators
Out_Meta == "docs/reports/dashboard_issue_223.json"

Out_Repo == "docs/reports/dashboard_all_issues.json"

OutputOf(script) == IF script = Script_Meta THEN Out_Meta ELSE Out_Repo

RefreshPaths == {"/__refresh_all", "/__refresh_meta", "/__refresh_both"}

PostPaths == RefreshPaths \cup {"/__refresh"}

GetPaths ==
    {"/reports/dashboard_issue_223.json", "/reports/dashboard_all_issues.json",
     "/docs/reports/dashboard_all_issues.json"}

\* the file under docs/ a GET path is served from
ServedFile(path) == IF path = "/reports/dashboard_issue_223.json" THEN Out_Meta ELSE Out_Repo

HTTP_OK == 200

HTTP_FOUND == 302

HTTP_NOT_FOUND == 404

HTTP_INTERNAL_SERVER_ERROR == 500

\* unit i of the document of run `run`, which is len units long
Unit(run, i, len) == [run |-> run, i |-> i, len |-> len]

\* json.dump(dashboard, f, indent=2); f.write("\n") of run `run`: the text
Document(run, len) == [i \in 1..len |-> Unit(run, i, len)]

\* the lengths a write call at `offset` can have: what the file object holds
\* when its buffer is full depends on the text, and the call at close takes
\* what is left
PieceLens(len, offset) ==
    {n \in 1..MaxPieceLen : offset + n <= len}

\* the piece of the document a write call of length n at `offset` puts down
Piece(run, len, offset, n) ==
    SubSeq(Document(run, len), offset + 1, offset + n)

\* the content is the whole document of one run and nothing else
CompleteDocument(content) ==
    content # <<>> /\ content = Document(content[1].run, content[1].len)

\* the run that wrote the files before the server started
EarlierRun == <<0, 0>>

\* a file with its content, and a file that does not exist
File(content) == [exists |-> TRUE, content |-> content]

Absent == [exists |-> FALSE, content |-> <<>>]

\* what a write past the end of a file leaves in between
Hole == Unit(<<0, 0>>, 0, 0)

\* a write call of `piece` at `offset` on a file holding `content`: it replaces
\* as many units as the piece is long and leaves the rest
write_at(content, offset, piece) ==
    LET end == offset + Len(piece)
        n == IF Len(content) > end THEN Len(content) ELSE end
    IN  [i \in 1..n |->
            IF i > offset /\ i <= end THEN piece[i - offset]
            ELSE IF i <= Len(content) THEN content[i]
            ELSE Hole]

NoChild == [pc |-> "none"]

IdleConn ==
    [pc |-> "idle", method |-> "", path |-> "", results |-> <<>>, child |-> NoChild,
     response |-> None, content_length |-> 0, body |-> <<>>]


\* the result dictionaries of _run_script; stdout and stderr are lists of lines
missing_result(script) ==
    [ok |-> FALSE, returncode |-> 2, script |-> script, stdout |-> <<>>,
     stderr |-> <<"Missing script">>]

completed_result(script, returncode, stdout, stderr) ==
    [ok |-> returncode = 0, returncode |-> returncode, script |-> script, stdout |-> stdout,
     stderr |-> stderr]

timeout_result(script, out, err) ==
    [ok |-> FALSE, returncode |-> 124, script |-> script, stdout |-> out,
     stderr |-> Append(err, "Timed out")]

\* do_POST with the two scripts of /__refresh_both in the other order
ScriptsOf_repo_first(path) ==
    IF path = "/__refresh_all" THEN <<Script_Repo>>
    ELSE IF path = "/__refresh_meta" THEN <<Script_Meta>>
    ELSE <<Script_Repo, Script_Meta>>

\* do_POST lines 158-166
ScriptsOf(path) ==
    IF path = "/__refresh_all" THEN <<Script_Repo>>
    ELSE IF path = "/__refresh_meta" THEN <<Script_Meta>>
    ELSE <<Script_Meta, Script_Repo>>

\* post_response with any() for all(): ok when some script succeeded
post_response_any_ok(results) ==
    LET ok == \E i \in DOMAIN results : results[i].ok
    IN  [status |-> IF ok THEN HTTP_OK ELSE HTTP_INTERNAL_SERVER_ERROR,
         payload |-> [ok |-> ok, results |-> results]]

\* do_POST lines 168-178
post_response(results) ==
    LET ok == \A i \in DOMAIN results : results[i].ok
    IN  [status |-> IF ok THEN HTTP_OK ELSE HTTP_INTERNAL_SERVER_ERROR,
         payload |-> [ok |-> ok, results |-> results]]

\* do_POST from where it is up to the next wait for a child, to the response,
\* or to the exception that ends it; `present` are the scripts that exist,
\* `spawns` tells whether subprocess.run can start the process: when it cannot,
\* the OSError is not caught by _run_script (only TimeoutExpired is, line 70)
\* nor by do_POST, and the connection is closed without a response
RECURSIVE Advance(_, _, _, _)
Advance(r, c, present, spawns) ==
    LET scripts == ScriptsOf(c.path)
        k == Len(c.results) + 1
    IN  IF k > Len(scripts)
        THEN [c EXCEPT !.pc = "done", !.child = NoChild, !.response = post_response(c.results)]
        ELSE IF scripts[k] \notin present
        THEN Advance(r, [c EXCEPT !.results = Append(@, missing_result(scripts[k]))], present,
                     spawns)
        ELSE IF ~spawns
        THEN [c EXCEPT !.pc = "raised", !.child = NoChild]
        ELSE [c EXCEPT !.pc = "wait",
                       !.child = [pc |-> "build", script |-> scripts[k], run |-> <<r, k>>,
                                  len |-> 0, offset |-> 0, returncode |-> -1]]

\* the scripts do_POST has still to look for once the running one has ended
ScriptsAfter(c) ==
    {ScriptsOf(c.path)[k] : k \in (Len(c.results) + 2)..Len(ScriptsOf(c.path))}

\* connection r is the next the server accepts
NextAccepted(cs, r) == cs[r].pc = "idle" /\ \A q \in 1..(r - 1) : cs[q].pc # "idle"

\* subprocess.run returned or raised TimeoutExpired: the result joins the list
Returns(r, c, result, present, spawns) ==
    Advance(r, [c EXCEPT !.results = Append(@, result), !.child = NoChild], present, spawns)

(***************************************************************************)
(* State.                                                                  *)
(***************************************************************************)
VARIABLES
    gen,                \* which generator's main() runs: "meta" or "repo"
    pc,                 \* where the run is
    token,              \* GITHUB_TOKEN is set
    exit_code,          \* the exit code of the process, -1 while it runs
    out_file,           \* the output file: None (as before the run), partial, or the document
    dashboard,          \* what build_dashboard returned, None before
    features,           \* build_dashboard's features list
    meta_issue_number,  \* --issue-number
    meta_created_at,    \* build_dashboard's meta_created_at
    body_lines,         \* parse_meta_issue_body: body.splitlines()
    pos,                \*   the lines of it the loop has consumed
    current_category,   \*   current_category
    mapping,            \*   mapping, and the value returned
    issue_to_category,  \* the mapping after the pop of line 184
    todo,               \* the rest of ordered_issue_numbers
    rate_limited,       \* build_dashboard's rate_limited
    fetch_log,          \* per issue processed: its number and the outcome of its fetch
    reported,           \* the outcomes whose response reported exhaustion so far
    page,               \* the all-issues generator's page
    issues,             \* the all-issues generator's issues list
    page_log,           \* the pages it has requested, each with the response it met and
                        \* whether the exhaustion warning was printed
    call,               \* a function called on its own: its name and arguments
    ret,                \* and what it returned, None before
    conns,              \* the dev server's connections, one thread each
    files               \* the generators' output files

mainVars == <<gen, pc, token, exit_code, out_file, dashboard, features>>

metaVars ==
    <<meta_issue_number, meta_created_at, body_lines, pos, current_category, mapping,
      issue_to_category, todo, rate_limited, fetch_log, reported>>

repoVars == <<page, issues, page_log>>

unitVars == <<call, ret>>

serverVars == <<conns, files>>

vars == <<mainVars, metaVars, repoVars, unitVars, serverVars>>

MetaIdle ==
    /\ meta_created_at = None
    /\ body_lines = <<>>
    /\ pos = 0
    /\ current_category = NoneStr
    /\ mapping = EmptyMapping
    /\ issue_to_category = EmptyMapping
    /\ todo = <<>>
    /\ rate_limited = FALSE
    /\ fetch_log = <<>>
    /\ reported = {}

UnitIdle == call = None /\ ret = None

\* the server has accepted nothing; the files hold the documents of an earlier run
ServerIdle ==
    /\ conns = [r \in Requests |-> IdleConn]
    /\ files = [f \in {Out_Meta, Out_Repo} |-> File(Document(EarlierRun, 1))]

\* main() is entered: the arguments and the environment are read
Init ==
    /\ gen \in {"meta", "repo"}
    /\ pc = "main"
    /\ token \in BOOLEAN
    /\ exit_code = -1
    /\ out_file = None
    /\ dashboard = None
    /\ features = <<>>
    /\ meta_issue_number \in (IF gen = "meta" THEN MetaNumbers ELSE {0})
    /\ MetaIdle
    /\ page = 1
    /\ issues = <<>>
    /\ page_log = <<>>
    /\ UnitIdle
    /\ ServerIdle

\* build_dashboard raised: main prints the message to standard error and
\* returns 2; when standard error cannot be written the print raises OSError
\* inside the except block, and that exception leaves main
Fail ==
    \/ pc' = "exit" /\ exit_code' = 2
    \/ pc' = "raising" /\ UNCHANGED exit_code

(***************************************************************************)
(* The meta generator's run.                                               *)
(***************************************************************************)
\* lines 179-183: the meta issue is fetched; the parser starts on its body
MetaFetchMeta ==
    /\ gen = "meta" /\ pc = "main"
    /\ \/ \E b \in Bodies, c \in MetaCreatedMenu :
            /\ meta_created_at' = (IF falsy_timestamp(c) THEN iso_now_utc ELSE c)
            /\ body_lines' = splitlines(b)
            /\ pc' = "parse"
            /\ UNCHANGED exit_code
       \/ Fail /\ UNCHANGED <<meta_created_at, body_lines>>
    /\ UNCHANGED <<gen, token, out_file, dashboard, features, meta_issue_number, pos,
                   current_category, mapping, issue_to_category, todo, rate_limited,
                   fetch_log, reported, repoVars, unitVars, serverVars>>

\* lines 156-173: one line of the body
MetaParseLine ==
    /\ gen = "meta" /\ pc = "parse" /\ pos < Len(body_lines)
    /\ LET st == parse_line([current_category |-> current_category, mapping |-> mapping],
                            body_lines[pos + 1])
       IN  /\ current_category' = st.current_category
           /\ mapping' = st.mapping
    /\ pos' = pos + 1
    /\ UNCHANGED <<mainVars, meta_issue_number, meta_created_at, body_lines, issue_to_category,
                   todo, rate_limited, fetch_log, reported, repoVars, unitVars, serverVars>>

\* lines 175, 183-190: the parser returns; its locals are gone
MetaParseReturn ==
    /\ gen = "meta" /\ pc = "parse" /\ pos = Len(body_lines)
    /\ issue_to_category' = pop(mapping, meta_issue_number)
    /\ todo' = sorted_numbers(DOMAIN issue_to_category')
    /\ body_lines' = <<>>
    /\ pos' = 0
    /\ current_category' = NoneStr
    /\ pc' = "fetch"
    /\ UNCHANGED <<gen, token, exit_code, out_file, dashboard, features, meta_issue_number,
                   meta_created_at, mapping, rate_limited, fetch_log, reported, repoVars,
                   unitVars, serverVars>>

\* lines 192-247: one referenced issue
MetaFetchIssue ==
    /\ gen = "meta" /\ pc = "fetch" /\ todo # <<>>
    /\ \E resp \in IssueResponses :
          LET n == Head(todo)
              r == fetch_step(n, issue_to_category[n], rate_limited, token, meta_created_at, resp)
          IN  /\ features' = features \o r.appended
              /\ rate_limited' = r.rate_limited
              /\ fetch_log' = Append(fetch_log, [n |-> n, outcome |-> r.outcome])
              /\ reported' = (IF r.outcome # "skipped" /\ reports_exhaustion(resp.remaining)
                              THEN reported \cup {r.outcome}
                              ELSE reported)
    /\ todo' = Tail(todo)
    /\ UNCHANGED <<gen, pc, token, exit_code, out_file, dashboard, meta_issue_number,
                   meta_created_at, body_lines, pos, current_category, mapping,
                   issue_to_category, repoVars, unitVars, serverVars>>

\* the sort, the aggregation and the validations, and the return to main
Aggregate(fs) ==
    LET d == aggregate(fs)
    IN  IF d = RuntimeError
        THEN Fail /\ UNCHANGED <<dashboard, features>>
        ELSE /\ dashboard' = d
             /\ features' = d.features
             /\ pc' = "write"
             /\ UNCHANGED exit_code

\* lines 249-318
MetaAggregate ==
    /\ gen = "meta" /\ pc = "fetch" /\ todo = <<>>
    /\ Aggregate(features)
    /\ UNCHANGED <<gen, token, out_file, metaVars, repoVars, unitVars, serverVars>>

(***************************************************************************)
(* The all-issues generator's run.                                         *)
(***************************************************************************)
\* one page of the listing with the header read before the page's items are
\* appended: the issues of the page that reports exhaustion are lost
RepoFetchPage_limit_before_append ==
    /\ gen = "repo" /\ pc = "main"
    /\ \E resp \in PageResponses(page), warned \in BOOLEAN :
          /\ warned => resp.status = "ok" /\ resp.items # <<>>
                           /\ reports_exhaustion(resp.remaining)
          /\ page_log' = Append(page_log, [page |-> page, response |-> resp,
                                           warned |-> warned])
          /\ IF resp.status = "error"
             THEN Fail /\ UNCHANGED <<page, issues>>
             ELSE IF resp.items = <<>>
             THEN pc' = "build" /\ UNCHANGED <<exit_code, page, issues>>
             ELSE IF reports_exhaustion(resp.remaining)
             THEN /\ IF warned THEN pc' = "build" /\ UNCHANGED exit_code ELSE Fail
                  /\ UNCHANGED <<page, issues>>
             ELSE /\ issues' = issues \o page_issues(resp.items)
                  /\ pc' = pc /\ page' = page + 1
                  /\ UNCHANGED exit_code
    /\ UNCHANGED <<gen, token, out_file, dashboard, features, metaVars, unitVars, serverVars>>

\* lines 243-266: one page of the listing; `warned` tells whether the warning
\* of line 257 was printed: when standard error cannot be written the print
\* raises OSError, which leaves build_dashboard like any other error
RepoFetchPage ==
    /\ gen = "repo" /\ pc = "main"
    /\ \E resp \in PageResponses(page), warned \in BOOLEAN :
          /\ warned => resp.status = "ok" /\ resp.items # <<>>
                           /\ reports_exhaustion(resp.remaining)
          /\ page_log' = Append(page_log, [page |-> page, response |-> resp,
                                           warned |-> warned])
          /\ IF resp.status = "error"
             THEN Fail /\ UNCHANGED <<page, issues>>
             ELSE IF resp.items = <<>>
             THEN pc' = "build" /\ UNCHANGED <<exit_code, page, issues>>
             ELSE /\ issues' = issues \o page_issues(resp.items)
                  /\ IF reports_exhaustion(resp.remaining)
                     THEN /\ IF warned THEN pc' = "build" /\ UNCHANGED exit_code ELSE Fail
                          /\ UNCHANGED page
                     ELSE pc' = pc /\ page' = page + 1 /\ UNCHANGED exit_code
    /\ UNCHANGED <<gen, token, out_file, dashboard, features, metaVars, unitVars, serverVars>>

\* lines 268-376
RepoBuild ==
    /\ gen = "repo" /\ pc = "build"
    /\ Aggregate(repo_features(issues))
    /\ UNCHANGED <<gen, token, out_file, metaVars, repoVars, unitVars, serverVars>>

\* main lines 336-341: the directory is made and the file opened for writing,
\* which empties it; an OSError there is not caught and leaves main with the
\* file as it was
WriteOpen ==
    /\ pc = "write"
    /\ \/ out_file' = PartialFile(0) /\ pc' = "writing"
       \/ pc' = "raising" /\ UNCHANGED out_file
    /\ UNCHANGED <<gen, token, exit_code, dashboard, features, metaVars, repoVars, unitVars,
                   serverVars>>

\* main lines 341-343: the file object hands the text of json.dump and the
\* newline to the file in write calls, the last one when the with block closes
\* the file. A call that fails raises OSError, which leaves the with block and
\* main; closing the file makes the failed call once more, so the file is left
\* with what earlier calls put down or, when the second try succeeds, with
\* this call's piece as well, which for the last call is the whole document.
\* The process is then still running, and ends in a step of its own
WriteFlush ==
    /\ pc = "writing"
    /\ \E last, raises, retried \in BOOLEAN :
          /\ out_file.written + 1 = MaxDocWrites => last
          /\ retried => raises
          /\ out_file' = IF raises /\ ~retried THEN out_file
                         ELSE IF last THEN dashboard
                         ELSE PartialFile(out_file.written + 1)
          /\ pc' = IF raises THEN "raising" ELSE IF last THEN "written" ELSE pc
    /\ UNCHANGED <<gen, token, exit_code, dashboard, features, metaVars, repoVars, unitVars,
                   serverVars>>

\* main lines 345-346: "Wrote ..." is printed and 0 returned; when standard
\* output cannot be written the run ends like one an exception has left
WriteReturn ==
    /\ pc = "written"
    /\ \/ exit_code' = 0 /\ pc' = "exit"
       \/ pc' = "raising" /\ UNCHANGED exit_code
    /\ UNCHANGED <<gen, token, out_file, dashboard, features, metaVars, repoVars, unitVars,
                   serverVars>>

\* an exception has left main, so that raise SystemExit(main()) gets no value:
\* the interpreter reports the exception and the process ends with 1, or with
\* 120 when it cannot flush a standard stream at its end
Uncaught ==
    /\ pc = "raising"
    /\ pc' = "raised"
    /\ exit_code' \in {1, 120}
    /\ UNCHANGED <<gen, token, out_file, dashboard, features, metaVars, repoVars, unitVars,
                   serverVars>>

Next ==
    \/ MetaFetchMeta
    \/ MetaParseLine
    \/ MetaParseReturn
    \/ MetaFetchIssue
    \/ MetaAggregate
    \/ RepoFetchPage
    \/ RepoBuild
    \/ WriteOpen
    \/ WriteFlush
    \/ WriteReturn
    \/ Uncaught

Spec == Init /\ [][Next]_vars

\* the issue numbers fetch_issue was called for, in order
fetch_calls ==
    LET called == SelectSeq(fetch_log, LAMBDA e : e.outcome # "skipped")
    IN  [i \in DOMAIN called |-> called[i].n]

(***************************************************************************)
(* parse_meta_issue_body by itself, on every body of up to MaxLines lines. *)
(***************************************************************************)
InitParse ==
    /\ gen = "meta"
    /\ pc = "parse"
    /\ token = FALSE
    /\ exit_code = -1
    /\ out_file = None
    /\ dashboard = None
    /\ features = <<>>
    /\ meta_issue_number = DEFAULT_ISSUE_NUMBER
    /\ meta_created_at = None
    /\ body_lines \in {splitlines(b) : b \in ParseBodies}
    /\ pos = 0
    /\ current_category = NoneStr
    /\ mapping = EmptyMapping
    /\ issue_to_category = EmptyMapping
    /\ todo = <<>>
    /\ rate_limited = FALSE
    /\ fetch_log = <<>>
    /\ reported = {}
    /\ page = 1
    /\ issues = <<>>
    /\ page_log = <<>>
    /\ UnitIdle
    /\ ServerIdle

NextParse == MetaParseLine

SpecParse == InitParse /\ [][NextParse]_vars

(***************************************************************************)
(* Functions called on their own: `call` holds the arguments, `ret` what   *)
(* the function returned.                                                  *)
(***************************************************************************)
\* no generator runs
NoRun ==
    /\ gen = "none"
    /\ pc = "idle"
    /\ token = FALSE
    /\ exit_code = -1
    /\ out_file = None
    /\ dashboard = None
    /\ features = <<>>
    /\ meta_issue_number = 0
    /\ MetaIdle
    /\ page = 1
    /\ issues = <<>>
    /\ page_log = <<>>

Returned(value) == [kind |-> "returned", value |-> value]

TitleMenu == {Title_Module, Title_ModuleLoose, Title_ModuleNoColon, Title_Typo, Title_Plain}

LabelsMenu == {<<>>, <<Label_Suggest>>, <<Label_Tbd, Label_Suggest>>, <<Label_Obsolete>>}

BodyMenu == {Body_Empty, Body_Deprecated, Body_TypoDeprecated, Body_Improve, Body_SplitKeyword}

InitClassify ==
    /\ NoRun
    /\ ServerIdle
    /\ call \in [kind : {"categorize_issue_best_guess"}, title : TitleMenu,
                 labels : LabelsMenu, body : BodyMenu]
    /\ ret = None

Classify ==
    /\ call.kind = "categorize_issue_best_guess" /\ ret = None
    /\ ret' = Returned(categorize_issue_best_guess(call.title, call.labels, call.body))
    /\ UNCHANGED <<mainVars, metaVars, repoVars, call, serverVars>>

NextClassify == Classify

SpecClassify == InitClassify /\ [][NextClassify]_vars

\* the issue states and timestamps the filter is called with; the run starts
\* at NowDatetime, so day 10 hour 12 UTC is exactly 30 days before it
IssueStateMenu == {State_Closed, State_ClosedUpper, State_Open, NoneStr, <<>>}

ClosedMenu ==
    {None,
     [kind |-> "text", text |-> Text_NotADate],
     [kind |-> "text", text |-> <<>>],
     Ts(10, 12, "Z"),
     Ts(10, 14, "+02:00"),
     Ts(10, 11, "Z"),
     Ts(10, 6, "-05:00"),
     Ts(9, 12, "Z"),
     Ts(10, 12, ""),
     Ts(39, 0, "Z")}

UpdatedMenu == {None, [kind |-> "text", text |-> Text_NotADate], Ts(10, 12, "Z"), Ts(9, 12, "Z"), Ts(39, 0, "Z")}

InitFilter ==
    /\ NoRun
    /\ ServerIdle
    /\ call \in [kind : {"should_include_issue"}, state : IssueStateMenu,
                 closed_at : ClosedMenu, updated_at : UpdatedMenu]
    /\ ret = None

Filter ==
    /\ call.kind = "should_include_issue" /\ ret = None
    /\ ret' = Returned(should_include_issue(call, NowDatetime, hide_closed_older_than_days))
    /\ UNCHANGED <<mainVars, metaVars, repoVars, call, serverVars>>

NextFilter == Filter

SpecFilter == InitFilter /\ [][NextFilter]_vars

\* the longest features list the aggregation is called with
MaxFeatures == 3

DateMenu ==
    {Ts(5, 8, "Z"), Ts(5, 8, ""), Ts(4, 23, "-05:00"), [kind |-> "text", text |-> Text_NotADate],
     [kind |-> "text", text |-> Text_BadHour]}

AreaMenu == {Cat_GrammarSpelling, Cat_Other}

\* the lists of k issue numbers, all different
NumberLists(k) == {f \in [1..k -> 1..MaxFeatures] : \A i, j \in 1..k : f[i] = f[j] => i = j}

\* build_dashboard is at its sort with a list of features of distinct issues, in
\* any order
InitAgg ==
    /\ NoRun
    /\ ServerIdle
    /\ \E k \in 0..MaxFeatures :
          \E n \in NumberLists(k), a \in [1..k -> AreaMenu], d \in [1..k -> DateMenu] :
              call = [kind |-> "build_dashboard",
                      features |-> [i \in 1..k |-> MetaFeature(n[i], issue_title(n[i]), a[i], d[i])]]
    /\ ret = None

Agg ==
    /\ call.kind = "build_dashboard" /\ ret = None
    /\ ret' = Returned(aggregate(call.features))
    /\ UNCHANGED <<mainVars, metaVars, repoVars, call, serverVars>>

NextAgg == Agg

SpecAgg == InitAgg /\ [][NextAgg]_vars

(***************************************************************************)
(* The dev server's run: ThreadingTCPServer gives every connection its own *)
(* thread; a refresh waits in subprocess.run for a generator, which runs   *)
(* as a process of its own.                                                *)
(***************************************************************************)
\* the server starts with each report written by an earlier run, short or
\* longer than one read call takes, or not yet written
InitServer ==
    /\ NoRun
    /\ UnitIdle
    /\ conns = [r \in Requests |-> IdleConn]
    /\ files \in [{Out_Meta, Out_Repo} ->
                    {Absent} \cup {File(Document(EarlierRun, len)) : len \in {1, MaxDocLen}}]

\* do_POST lines 149-154: a POST to a path that is no refresh endpoint
PostUnknown(r) ==
    /\ NextAccepted(conns, r)
    /\ \E path \in PostPaths \ RefreshPaths :
          conns' = [conns EXCEPT ![r] =
                        [@ EXCEPT !.pc = "done", !.method = "POST", !.path = path,
                                  !.response = [status |-> HTTP_NOT_FOUND,
                                                payload |-> [ok |-> FALSE, error |-> path]]]]
    /\ UNCHANGED <<mainVars, metaVars, repoVars, unitVars, files>>

\* do_POST lines 156-166: a refresh starts its first script
PostRefresh(r) ==
    /\ NextAccepted(conns, r)
    /\ \E path \in RefreshPaths :
          \E present \in SUBSET Range(ScriptsOf(path)) :
              \E spawns \in BOOLEAN :
                  conns' = [conns EXCEPT ![r] =
                                Advance(r, [@ EXCEPT !.method = "POST", !.path = path],
                                        present, spawns)]
    /\ UNCHANGED <<mainVars, metaVars, repoVars, unitVars, files>>

\* do_GET and do_HEAD up to the end of the headers: a redirect for /docs/...,
\* 404 for a file that is not there, else the file is opened and its size at
\* this moment sent as Content-Length; a HEAD ends here
GetHead(r) ==
    /\ NextAccepted(conns, r)
    /\ \E method \in {"GET", "HEAD"}, path \in GetPaths :
          LET c == [conns[r] EXCEPT !.method = method, !.path = path]
              file == files[ServedFile(path)]
              next ==
                  IF path = "/docs/reports/dashboard_all_issues.json"
                  THEN [c EXCEPT !.pc = "done",
                                 !.response = [status |-> HTTP_FOUND,
                                               location |-> "/reports/dashboard_all_issues.json"]]
                  ELSE IF ~file.exists
                  THEN [c EXCEPT !.pc = "done", !.response = [status |-> HTTP_NOT_FOUND]]
                  ELSE IF method = "HEAD"
                  THEN [c EXCEPT !.pc = "done",
                                 !.response = [status |-> HTTP_OK,
                                               content_length |-> Len(file.content),
                                               body |-> <<>>]]
                  ELSE [c EXCEPT !.pc = "send", !.content_length = Len(file.content)]
          IN  conns' = [conns EXCEPT ![r] = next]
    /\ UNCHANGED <<mainVars, metaVars, repoVars, unitVars, files>>

\* do_GET after the headers: one read call of copyfile on the open file, from
\* the position it has reached (the length of what it has read): it gets what
\* the file holds there at this moment, MaxReadLen units at most, and sends
\* it; a read that meets the end of the file ends the response
GetRead(r) ==
    /\ conns[r].pc = "send"
    /\ LET c == conns[r]
           content == files[ServedFile(c.path)].content
           at == Len(c.body)
           upto == IF at + MaxReadLen < Len(content) THEN at + MaxReadLen ELSE Len(content)
           next ==
               IF at < Len(content)
               THEN [c EXCEPT !.body = @ \o SubSeq(content, at + 1, upto)]
               ELSE [c EXCEPT !.pc = "done", !.content_length = 0, !.body = <<>>,
                              !.response = [status |-> HTTP_OK,
                                            content_length |-> c.content_length,
                                            body |-> c.body]]
       IN  conns' = [conns EXCEPT ![r] = next]
    /\ UNCHANGED <<mainVars, metaVars, repoVars, unitVars, files>>

\* main lines 336-341: open(out_path, "w") makes the file or empties it; the
\* document of this run is len units long
ChildOpens(r) ==
    /\ conns[r].pc = "wait" /\ conns[r].child.pc = "build"
    /\ \E len \in 1..MaxDocLen :
          conns' = [conns EXCEPT ![r].child.pc = "write", ![r].child.len = len]
    /\ files' = [files EXCEPT ![OutputOf(conns[r].child.script)] = File(<<>>)]
    /\ UNCHANGED <<mainVars, metaVars, repoVars, unitVars>>

\* main lines 341-343: a write call of the file object, at the offset the
\* process has reached and of a length that depends on the text and the
\* buffer: it replaces as much of the file as it is long; the call that
\* reaches the end of the document is the one made when the file is closed
ChildWrites(r) ==
    /\ conns[r].pc = "wait" /\ conns[r].child.pc = "write"
    /\ LET ch == conns[r].child
       IN  \E n \in PieceLens(ch.len, ch.offset) :
              /\ files' = [files EXCEPT ![OutputOf(ch.script)].content =
                              write_at(@, ch.offset, Piece(ch.run, ch.len, ch.offset, n))]
              /\ conns' = [conns EXCEPT ![r].child =
                                           IF ch.offset + n < ch.len
                                           THEN [ch EXCEPT !.offset = ch.offset + n]
                                           ELSE [ch EXCEPT !.pc = "closed", !.len = 0,
                                                           !.offset = 0]]
    /\ UNCHANGED <<mainVars, metaVars, repoVars, unitVars>>

\* main lines 341-343: a write call of the file object raises OSError, which
\* leaves the with block and main; closing the file makes the failed call
\* once more: n is the length it then puts down, 0 when it fails again. The
\* process is still running, with the exception on its way out
ChildRaises(r) ==
    /\ conns[r].pc = "wait" /\ conns[r].child.pc = "write"
    /\ LET ch == conns[r].child
       IN  \E n \in {0} \cup PieceLens(ch.len, ch.offset) :
              /\ files' = IF n = 0 THEN files
                          ELSE [files EXCEPT ![OutputOf(ch.script)].content =
                                   write_at(@, ch.offset, Piece(ch.run, ch.len, ch.offset, n))]
              /\ conns' = [conns EXCEPT ![r].child =
                                           [ch EXCEPT !.pc = "raising", !.len = 0,
                                                      !.offset = 0]]
    /\ UNCHANGED <<mainVars, metaVars, repoVars, unitVars>>

\* the generator ends as a process: with 2 when build_dashboard raised, with 1
\* when makedirs or open raised OSError or a write call had raised it, with 0
\* once the file is closed, "Wrote ..." printed and main has returned; its
\* standard streams are pipes the server reads, so its prints do not fail
ChildExits(r) ==
    /\ conns[r].pc = "wait" /\ conns[r].child.pc \in {"build", "raising", "closed"}
    /\ LET ch == conns[r].child
       IN  \E returncode \in 0..2 :
              /\ ch.pc = "build" => returncode \in {1, 2}
              /\ ch.pc = "raising" => returncode = 1
              /\ ch.pc = "closed" => returncode = 0
              /\ conns' = [conns EXCEPT ![r].child =
                                           [ch EXCEPT !.pc = "exited",
                                                      !.returncode = returncode]]
    /\ UNCHANGED <<mainVars, metaVars, repoVars, unitVars, files>>

\* _run_script lines 59-69: subprocess.run returns with the ended child's exit
\* code and output; the all-issues generator may have printed its rate-limit
\* warning (line 257) before anything else on stderr; do_POST goes on
RunReturns(r) ==
    /\ conns[r].pc = "wait" /\ conns[r].child.pc = "exited"
    /\ \E warned \in (IF conns[r].child.script = Script_Repo THEN BOOLEAN ELSE {FALSE}) :
          LET ch == conns[r].child
              stdout == IF ch.returncode = 0 THEN <<"Wrote">> ELSE <<>>
              stderr == (IF warned THEN <<"Warning">> ELSE <<>>)
                        \o (IF ch.returncode = 0 THEN <<>>
                            ELSE IF ch.returncode = 2 THEN <<"Error">> ELSE <<"Traceback">>)
          IN  \E present \in SUBSET ScriptsAfter(conns[r]) :
                 \E spawns \in BOOLEAN :
                     conns' = [conns EXCEPT ![r] =
                                   Returns(r, @, completed_result(ch.script, ch.returncode,
                                                                  stdout, stderr),
                                           present, spawns)]
    /\ UNCHANGED <<mainVars, metaVars, repoVars, unitVars, files>>

\* _run_script lines 53-62: subprocess.run(..., text=True) decodes what the
\* ended child printed; output that is not valid text makes it raise
\* UnicodeDecodeError, which _run_script does not catch (line 70 names
\* TimeoutExpired only) and do_POST neither: the handler ends with the
\* exception and the connection is closed without a response
RunRaises(r) ==
    /\ conns[r].pc = "wait" /\ conns[r].child.pc = "exited"
    /\ conns' = [conns EXCEPT ![r] = [@ EXCEPT !.pc = "raised", !.child = NoChild]]
    /\ UNCHANGED <<mainVars, metaVars, repoVars, unitVars, files>>

\* _run_script lines 70-79: the timeout expires before the child has ended as
\* a process; it is killed where it is, and what it had printed is handed
\* over as bytes, not str, so the result's stdout and stderr start empty
ChildTimesOut(r) ==
    /\ conns[r].pc = "wait" /\ conns[r].child.pc \in {"build", "write", "raising", "closed"}
    /\ \E present \in SUBSET ScriptsAfter(conns[r]), spawns \in BOOLEAN :
          conns' = [conns EXCEPT ![r] =
                        Returns(r, @, timeout_result(@.child.script, <<>>, <<>>), present,
                                spawns)]
    /\ UNCHANGED <<mainVars, metaVars, repoVars, unitVars, files>>

NextServer ==
    \E r \in Requests :
        \/ PostUnknown(r)
        \/ PostRefresh(r)
        \/ GetHead(r)
        \/ GetRead(r)
        \/ ChildOpens(r)
        \/ ChildWrites(r)
        \/ ChildRaises(r)
        \/ ChildExits(r)
        \/ RunReturns(r)
        \/ RunRaises(r)
        \/ ChildTimesOut(r)

SpecServer == InitServer /\ [][NextServer]_vars

(***************************************************************************)
(* Properties of the section parser.                                       *)
(***************************************************************************)
\* what the parser reads off a line, tabulated once for the lines of the menu
LineFacts ==
    [l \in ParseLineMenu |->
        [text |-> strip_md_decorations(l),
         heading |-> IsCategoryMarker(strip_md_decorations(l)),
         refs |-> extract_issue_numbers(l)]]

\* line i of the body is a recognized category heading
Heading(i) == LineFacts[body_lines[i]].heading

\* the last recognized heading before line i, 0 when there is none
GoverningHeading(i) ==
    IF \E j \in 1..(i - 1) : Heading(j)
    THEN CHOOSE j \in 1..(i - 1) : Heading(j) /\ \A k \in (j + 1)..(i - 1) : ~Heading(k)
    ELSE 0

\* the consumed lines that reference issue n under a recognized heading
RefLinesOf(n) ==
    {i \in 1..pos : /\ ~Heading(i)
                    /\ GoverningHeading(i) # 0
                    /\ n \in LineFacts[body_lines[i]].refs}

ReferencedNumbers == UNION {LineFacts[body_lines[i]].refs : i \in DOMAIN body_lines}

FirstOf(S) == CHOOSE i \in S : \A j \in S : i <= j

C1_MappingIsFirstCategory ==
    pc = "parse" =>
        \A n \in ReferencedNumbers \cup DOMAIN mapping :
            IF RefLinesOf(n) = {} THEN n \notin DOMAIN mapping
            ELSE /\ n \in DOMAIN mapping
                 /\ mapping[n] =
                        LineFacts[body_lines[GoverningHeading(FirstOf(RefLinesOf(n)))]].text

C1_EntryNeverChanges ==
    [][\A n \in DOMAIN mapping : n \in DOMAIN mapping' /\ mapping'[n] = mapping[n]]_vars

\* C1: after any number of lines, an issue number is in the mapping exactly when
\* a consumed line under a recognized heading references it, it is mapped to the
\* stripped text of the heading that governs its first such reference, and no
\* step ever changes or removes an entry of the mapping.
C1_FirstCategoryWins == []C1_MappingIsFirstCategory /\ C1_EntryNeverChanges

\* the whole body is consumed and some issue is referenced under two recognized
\* headings with different texts
C1_Witness ==
    /\ pc = "parse" /\ pos = Len(body_lines)
    /\ \E n \in DOMAIN mapping : \E i, j \in RefLinesOf(n) :
          /\ i < j
          /\ LineFacts[body_lines[GoverningHeading(i)]].text
                # LineFacts[body_lines[GoverningHeading(j)]].text
          /\ mapping[n] = LineFacts[body_lines[GoverningHeading(i)]].text

(***************************************************************************)
(* Properties of the classifier and of the aggregation.                    *)
(***************************************************************************)
SixLabels ==
    <<MODULE_UPDATE_REQUEST_CATEGORY, Cat_GrammarSpelling, Cat_Placeholders, Cat_Deprecated,
      Cat_Suggested, Cat_Other>>

\* rule k of the priority order matches the arguments c
RuleMatches(k, c) ==
    LET blob == classifier_blob(c.title, c.labels, c.body)
    IN  CASE k = 1 -> category_from_title(normalize_ws(c.title)) # NoneStr
          [] k = 2 -> text_contains_any(blob, GrammarKeywords)
          [] k = 3 -> text_contains_any(blob, PlaceholderKeywords)
          [] k = 4 -> text_contains_any(blob, DeprecatedKeywords)
          [] k = 5 -> text_contains_any(blob, SuggestedKeywords)
          [] k = 6 -> TRUE

\* C2: categorize_issue_best_guess returns, for every (title, labels, body),
\* one of the six fixed labels: the label of the first rule that matches in the
\* order title prefix, grammar, placeholder, deprecated, suggested, other.
C2_FirstMatchWins ==
    (call.kind = "categorize_issue_best_guess" /\ ret # None) =>
        /\ ret.value \in Range(SixLabels)
        /\ \E k \in DOMAIN SixLabels :
              /\ RuleMatches(k, call)
              /\ \A j \in 1..(k - 1) : ~RuleMatches(j, call)
              /\ ret.value = SixLabels[k]
        /\ call.title = Title_Module => ret.value = MODULE_UPDATE_REQUEST_CATEGORY

\* a text with both 'typo' and 'deprecated' has been classified Grammar/Spelling
C2_Witness ==
    /\ call.kind = "categorize_issue_best_guess" /\ ret # None
    /\ call.title = Title_Plain /\ call.labels = <<>> /\ call.body = Body_TypoDeprecated
    /\ ret.value = Cat_GrammarSpelling

RECURSIVE TotalCount(_)
TotalCount(rows) == IF rows = <<>> THEN 0 ELSE Head(rows).count + TotalCount(Tail(rows))

\* C3: for every list of features build_dashboard returns a document (the
\* validations never raise), and in it summary.total_features, the length of
\* features, time_series.total and the sum of the product_area_breakdown counts
\* are all the number of features given.
C3_CountsAgree ==
    (call.kind = "build_dashboard" /\ ret # None) =>
        /\ ret.value # RuntimeError
        /\ Len(ret.value.features) = Len(call.features)
        /\ ret.value.summary.total_features = Len(ret.value.features)
        /\ ret.value.time_series.total = Len(ret.value.features)
        /\ TotalCount(ret.value.product_area_breakdown.product_areas) = Len(ret.value.features)

\* a document for features of two areas, one of them with several features
C3_Witness ==
    /\ call.kind = "build_dashboard" /\ ret # None /\ ret.value # RuntimeError
    /\ Len(ret.value.features) = MaxFeatures
    /\ Len(ret.value.product_area_breakdown.product_areas) = 2

(***************************************************************************)
(* Properties of the meta generator's run.                                 *)
(***************************************************************************)
\* the issue numbers the run owes a feature: the parsed mapping's, but its own
MetaReferenced == DOMAIN mapping \ {meta_issue_number}

FeatureNumbers(fs) == [i \in DOMAIN fs |-> fs[i].issue_number]

\* the features of fs for issue n
FeaturesOf(fs, n) == {i \in DOMAIN fs : fs[i].issue_number = n}

\* C4: in the meta generator, at every point of the fetch loop the features so
\* far and the issues still to do are, in order, the numbers of the parsed
\* mapping other than the meta issue's own; the returned document holds exactly
\* one feature per such number; the feature of a failed or skipped fetch is
\* titled "Issue #<n>" and dated meta_created_at; and once the meta issue is
\* fetched the run never fails.
C4_OneFeaturePerIssue ==
    gen = "meta" =>
        /\ pc = "fetch" => FeatureNumbers(features) \o todo = sorted_numbers(MetaReferenced)
        /\ pc = "write" =>
              /\ Len(dashboard.features) = Cardinality(MetaReferenced)
              /\ \A n \in MetaReferenced : Cardinality(FeaturesOf(dashboard.features, n)) = 1
        /\ \A i \in DOMAIN fetch_log :
              LET n == fetch_log[i].n
              IN  fetch_log[i].outcome \in {"failed", "skipped"} =>
                    \A k \in FeaturesOf(features, n) :
                        /\ features[k].title = Str_IssueHash \o IntToStr(n)
                        /\ features[k].date_discovered = meta_created_at
                        /\ features[k].product_area = mapping[n]
        /\ meta_created_at # None => ~(pc = "exit" /\ exit_code = 2)

\* a document is returned for a body that references the meta issue itself,
\* after a fetch that was skipped because the run was rate-limited
C4_Witness ==
    /\ gen = "meta" /\ pc = "write" /\ dashboard # None
    /\ meta_issue_number \in DOMAIN mapping
    /\ \E i \in DOMAIN fetch_log : fetch_log[i].outcome = "skipped"
    /\ Len(dashboard.features) >= 2

\* C5 as stated: once any per-issue response has reported
\* X-RateLimit-Remaining <= 0, the run is in placeholder mode.
C5_AnyReportSwitches == (gen = "meta" /\ pc = "fetch" /\ reported # {}) => rate_limited

C5_OkReportSwitches ==
    (gen = "meta" /\ pc = "fetch" /\ ~token /\ "ok" \in reported) => rate_limited

C5_ModeIsKept ==
    [][/\ rate_limited => rate_limited'
       /\ (rate_limited /\ fetch_log' # fetch_log) =>
             /\ fetch_log'[Len(fetch_log')].outcome = "skipped"
             /\ fetch_calls' = fetch_calls
             /\ Len(features') = Len(features) + 1
             /\ features'[Len(features')].title = Str_IssueHash \o IntToStr(Head(todo))
             /\ features'[Len(features')].date_discovered = meta_created_at]_vars

\* C5 (amended): in a run without a token, once a per-issue fetch that succeeded
\* has reported X-RateLimit-Remaining <= 0 the run is in placeholder mode; the
\* mode is never left, and every issue processed in it gets a placeholder
\* without a call of fetch_issue.
C5_StickyPlaceholderMode == []C5_OkReportSwitches /\ C5_ModeIsKept

\* an issue was skipped in placeholder mode
C5_Witness ==
    /\ gen = "meta" /\ pc = "fetch" /\ rate_limited /\ ~token /\ "ok" \in reported
    /\ \E i \in DOMAIN fetch_log : fetch_log[i].outcome = "skipped"

(***************************************************************************)
(* Properties of the dev server.                                           *)
(***************************************************************************)
\* C6 as stated: under every interleaving of refresh requests and GETs, each
\* output file is at every moment the complete document of a single run.
C6_OutputFilesAlwaysComplete ==
    \A f \in DOMAIN files : files[f].exists => CompleteDocument(files[f].content)

\* every request has been answered, every script run has exited 0, and an
\* output file is left holding pieces of the documents of two runs
MixedReportRemains ==
    /\ \A r \in Requests :
          /\ conns[r].pc = "done"
          /\ \A i \in DOMAIN conns[r].results : conns[r].results[i].ok
    /\ \E f \in DOMAIN files :
          \E i, j \in DOMAIN files[f].content :
              /\ files[f].content[i] # Hole /\ files[f].content[j] # Hole
              /\ files[f].content[i].run # files[f].content[j].run

\* a GET has been answered with a body that is no whole document
PartialReportServed ==
    \E r \in Requests :
        /\ conns[r].pc = "done" /\ conns[r].method = "GET"
        /\ conns[r].response.status = HTTP_OK
        /\ ~CompleteDocument(conns[r].response.body)

\* a GET has been answered with a body read partly before and partly after a
\* refresh rewrote the file: the start of one document and the rest of another
StitchedReportServed ==
    \E r \in Requests :
        /\ conns[r].pc = "done" /\ conns[r].method = "GET"
        /\ conns[r].response.status = HTTP_OK
        /\ Len(conns[r].response.body) = 2
        /\ conns[r].response.body[1] = Unit(EarlierRun, 1, 1)
        /\ conns[r].response.body[2].run # EarlierRun
        /\ conns[r].response.body[2].i = 2
        /\ CompleteDocument(files[ServedFile(conns[r].path)].content)

\* a GET has been answered with a Content-Length that is not its body's length
WrongLengthServed ==
    \E r \in Requests :
        /\ conns[r].pc = "done" /\ conns[r].method = "GET"
        /\ conns[r].response.status = HTTP_OK
        /\ conns[r].response.content_length # Len(conns[r].response.body)

\* a GET was answered with the Content-Length of the earlier document and a
\* body that is that document cut short: the file was rewritten between two
\* read calls
CutShortReportServed ==
    \E r \in Requests :
        /\ conns[r].pc = "done" /\ conns[r].method = "GET"
        /\ conns[r].response.status = HTTP_OK
        /\ conns[r].response.content_length = MaxDocLen
        /\ conns[r].response.body = SubSeq(Document(EarlierRun, MaxDocLen), 1, MaxReadLen)

\* a refresh was answered with a failure while the file its script wrote holds
\* the whole document of that run: the timeout expired after the file was closed
TimedOutWithReportWritten ==
    \E r \in Requests :
        /\ conns[r].pc = "done" /\ conns[r].path = "/__refresh_all"
        /\ conns[r].results # <<>> /\ conns[r].results[1].returncode = 124
        /\ files[Out_Repo].content # <<>>
        /\ CompleteDocument(files[Out_Repo].content)
        /\ files[Out_Repo].content[1].run = <<r, 1>>

\* a refresh was answered with its script's exit code 1 while the file holds
\* the whole document of that run: the write call that raised was made again
\* when the file was closed
FailedWithReportWritten ==
    \E r \in Requests :
        /\ conns[r].pc = "done" /\ Len(conns[r].results) = 1
        /\ conns[r].results[1].returncode = 1
        /\ LET content == files[OutputOf(conns[r].results[1].script)].content
           IN  CompleteDocument(content) /\ content[1].run = <<r, 1>>

(***************************************************************************)
(* Properties of the filter, of the order and of the time series.          *)
(***************************************************************************)
Usable(value) == parse_iso_datetime_or_none(value) # None

\* the hours between the effective closed timestamp of the issue and the start
AgeHours(issue) ==
    LET d == parse_iso_datetime_or_none(IF Usable(issue.closed_at) THEN issue.closed_at
                                        ELSE issue.updated_at)
    IN  (NowDatetime.day * 24 + NowDatetime.hour) - (d.day * 24 + d.hour - d.utcoffset)

\* C7: should_include_issue returns False exactly when the state is 'closed'
\* (in any case of the letters), closed_at or else updated_at is usable, and
\* that timestamp is more than 30 days before the start of the run; closed
\* exactly 30 days before is kept, closed 31 days before is dropped.
C7_ExcludedExactlyWhenClosedTooLong ==
    (call.kind = "should_include_issue" /\ ret # None) =>
        /\ ret.value = FALSE <=>
              /\ call.state # NoneStr /\ casefold(call.state) = State_Closed
              /\ Usable(call.closed_at) \/ Usable(call.updated_at)
              /\ AgeHours(call) > 30 * 24
        /\ (call.state = State_Closed /\ call.closed_at = Ts(NowDatetime.day - 30, NowDatetime.hour, "Z"))
              => ret.value = TRUE
        /\ (call.state = State_Closed /\ call.closed_at = Ts(NowDatetime.day - 31, NowDatetime.hour, "Z"))
              => ret.value = FALSE

\* an issue closed exactly 30 days before the start has been kept
C7_Witness ==
    /\ call.kind = "should_include_issue" /\ ret # None
    /\ call.state = State_Closed
    /\ call.closed_at = Ts(NowDatetime.day - 30, NowDatetime.hour + 2, "+02:00")
    /\ ret.value = TRUE

\* the instant of the discovery timestamp in hours since the epoch: 0 when the
\* timestamp does not parse, UTC when it has no offset
DiscoveryInstant(f) ==
    LET p == parse_iso_datetime(f.date_discovered)
    IN  IF p = ValueError THEN 0 ELSE p.day * 24 + p.hour - p.utcoffset

\* C8: the features of the returned document are the features given, in
\* ascending order of (discovery instant, issue number).
C8_FeaturesSorted ==
    (call.kind = "build_dashboard" /\ ret # None /\ ret.value # RuntimeError) =>
        LET fs == ret.value.features
        IN  /\ Range(fs) = Range(call.features)
            /\ Len(fs) = Len(call.features)
            /\ \A i \in 1..(Len(fs) - 1) :
                  \/ DiscoveryInstant(fs[i]) < DiscoveryInstant(fs[i + 1])
                  \/ /\ DiscoveryInstant(fs[i]) = DiscoveryInstant(fs[i + 1])
                     /\ fs[i].issue_number <= fs[i + 1].issue_number

\* a list given out of order, with an unparseable timestamp and two timestamps
\* of the same instant, has been sorted
C8_Witness ==
    /\ call.kind = "build_dashboard" /\ ret # None /\ ret.value # RuntimeError
    /\ ret.value.features # call.features
    /\ Len(ret.value.features) = MaxFeatures
    /\ parse_iso_datetime(ret.value.features[1].date_discovered) = ValueError
    /\ DiscoveryInstant(ret.value.features[2]) = DiscoveryInstant(ret.value.features[3])
    /\ ret.value.features[2].date_discovered # ret.value.features[3].date_discovered

RECURSIVE CountsUpTo(_, _)
CountsUpTo(rows, i) == IF i = 0 THEN 0 ELSE rows[i].count + CountsUpTo(rows, i - 1)

\* C9: the time_series rows of the returned document are in strictly ascending
\* order of their date keys, one row per distinct key of the features, with the
\* number of features of that key as count; each cumulative is the sum of the
\* counts up to its row, so it never decreases, and the last one is
\* summary.total_features.
C9_TimeSeriesCumulative ==
    (call.kind = "build_dashboard" /\ ret # None /\ ret.value # RuntimeError) =>
        LET rows == ret.value.time_series.time_series
            fs == ret.value.features
            days == {date_yyyy_mm_dd(fs[k].date_discovered) : k \in DOMAIN fs}
        IN  /\ \A i \in 1..(Len(rows) - 1) : DayKeyLess(rows[i].date, rows[i + 1].date)
            /\ {rows[i].date : i \in DOMAIN rows} = days
            /\ Len(rows) = Cardinality(days)
            /\ \A i \in DOMAIN rows :
                  /\ rows[i].count =
                        Cardinality({k \in DOMAIN fs : date_yyyy_mm_dd(fs[k].date_discovered) = rows[i].date})
                  /\ rows[i].cumulative = CountsUpTo(rows, i)
            /\ \A i \in 1..(Len(rows) - 1) : rows[i].cumulative <= rows[i + 1].cumulative
            /\ rows # <<>> => rows[Len(rows)].cumulative = ret.value.summary.total_features

\* a series of several rows, one of them counting several features
C9_Witness ==
    /\ call.kind = "build_dashboard" /\ ret # None /\ ret.value # RuntimeError
    /\ Len(ret.value.time_series.time_series) >= 2
    /\ \E i \in DOMAIN ret.value.time_series.time_series :
          ret.value.time_series.time_series[i].count >= 2

Range_KNOWN_CATEGORIES == Range(KNOWN_CATEGORIES)

AreaNames(d) ==
    {d.product_area_breakdown.product_areas[i].name :
        i \in DOMAIN d.product_area_breakdown.product_areas}

FeatureAreas(d) == {d.features[i].product_area : i \in DOMAIN d.features}

\* C10 as stated: every product_area of the meta generator's document, and every
\* name of its product_area_breakdown, is one of the five KNOWN_CATEGORIES.
C10_OnlyKnownLabels ==
    (gen = "meta" /\ dashboard # None) =>
        FeatureAreas(dashboard) \cup AreaNames(dashboard) \subseteq Range_KNOWN_CATEGORIES

\* C10 (amended): every product_area of the document the meta generator's
\* build_dashboard returns is the text of a recognized heading, that is, a text
\* whose normalized key is the key of one of the five KNOWN_CATEGORIES or starts
\* with such a key and a blank (it keeps the heading's own case and any words
\* after the label); the names of the product_area_breakdown are exactly these
\* product areas.
C10_HeadingTextLabels ==
    (gen = "meta" /\ pc = "write") =>
        /\ \A a \in FeatureAreas(dashboard) :
              /\ a # <<>>
              /\ \E i \in DOMAIN KNOWN_CATEGORIES :
                    LET key == normalize_key(a)
                        known == normalize_key(KNOWN_CATEGORIES[i])
                    IN  key = known \/ startswith(key, known \o <<" ">>)
        /\ AreaNames(dashboard) = FeatureAreas(dashboard)

\* a document with a product area that is none of the five labels
C10_Witness ==
    /\ gen = "meta" /\ dashboard # None
    /\ \E a \in FeatureAreas(dashboard) : a \notin Range_KNOWN_CATEGORIES

(***************************************************************************)
(* Recognition of category headings.                                       *)
(***************************************************************************)
\* a is b, or a is b followed by a blank and more text
EqualsOrExtends(a, b) ==
    \/ a = b
    \/ Len(a) > Len(b) /\ SubSeq(a, 1, Len(b) + 1) = b \o <<" ">>

\* the stripped text of each line, and whether its key is a known label's key
\* or continues one after a blank / is cut from one at a blank
HeadingFacts ==
    [l \in ParseLineMenu |->
        LET text == strip_md_decorations(l)
            key == normalize_key(text)
        IN  [text |-> text,
             extends_label |-> \E c \in Range(KNOWN_CATEGORIES) :
                                  EqualsOrExtends(key, normalize_key(c)),
             prefix_of_label |-> \E c \in Range(KNOWN_CATEGORIES) :
                                  EqualsOrExtends(normalize_key(c), key)]]

\* the line consumed by a step of the parser
ConsumedLine == body_lines[pos + 1]

\* C11 as stated: a step of the parser makes the stripped text of its line the
\* current category exactly when the line's key equals a known label's key or is
\* a prefix of one that ends at a word boundary, and no other step changes it.
C11_PrefixOfLabelIsHeading ==
    [][pc = "parse" /\ pos' = pos + 1 =>
          IF HeadingFacts[ConsumedLine].prefix_of_label
          THEN current_category' = HeadingFacts[ConsumedLine].text
          ELSE current_category' = current_category]_vars

\* C11 (amended): a step of the parser makes the stripped text of its line the
\* current category exactly when the line's key equals a known label's key or
\* starts with a known label's key followed by a blank; no other step changes
\* the current category.
C11_LabelPrefixedLineIsHeading ==
    [][pc = "parse" /\ pos' = pos + 1 =>
          IF HeadingFacts[ConsumedLine].extends_label
          THEN current_category' = HeadingFacts[ConsumedLine].text
          ELSE current_category' = current_category]_vars

\* a line that continues a known label after a blank became the current
\* category, and the next line, a word-boundary prefix of a known label, left it
C11_Witness ==
    /\ pc = "parse" /\ pos >= 2
    /\ HeadingFacts[body_lines[pos - 1]].extends_label
    /\ ~HeadingFacts[body_lines[pos - 1]].prefix_of_label
    /\ HeadingFacts[body_lines[pos]].prefix_of_label
    /\ ~HeadingFacts[body_lines[pos]].extends_label
    /\ current_category = HeadingFacts[body_lines[pos - 1]].text

(***************************************************************************)
(* The exit of a generator's main.                                         *)
(***************************************************************************)
\* C12 as stated: in both generators no exception leaves main; a run that has
\* ended has exit code 0, with the dashboard in the output file, or exit code 2
\* after an error at any step, writing the output included.
C12_MainCatchesEveryFailure ==
    /\ pc # "raised"
    /\ pc = "exit" => exit_code \in {0, 2}
    /\ exit_code = 0 => out_file = dashboard /\ dashboard # None

\* the dashboard was built and writing it raised out of main: the process ends
\* with a traceback and exit code 1
C12_WriteFailureEscapes ==
    /\ pc = "raised" /\ exit_code = 1
    /\ dashboard # None /\ out_file = None

\* a write call failed: main has ended with an exception and left the output
\* file with a part of the document
C12_PartialFileLeft ==
    /\ pc = "raised" /\ exit_code = 1
    /\ out_file = PartialFile(1)

\* a run ended with exit code 1 and the whole document in its file: the last
\* write call raised and was made again when the file was closed
C12_WholeFileLeft ==
    /\ pc = "raised" /\ exit_code = 1
    /\ dashboard # None /\ out_file = dashboard

(***************************************************************************)
(* The paging loop of the all-issues generator.                            *)
(***************************************************************************)
\* the response is a list that ends the loop: an empty page, or one whose
\* header reports that no request is left
StopsPaging(resp) ==
    resp.status = "ok" /\ (resp.items = <<>> \/ reports_exhaustion(resp.remaining))

\* the issues of the pages of a log, in order
RECURSIVE KeptOfPages(_)
KeptOfPages(log) ==
    IF log = <<>> THEN <<>>
    ELSE KeptOfPages(SubSeq(log, 1, Len(log) - 1)) \o page_issues(log[Len(log)].response.items)

LastResponse == page_log[Len(page_log)].response

\* the last page requested reported exhaustion and its warning could not be
\* written to standard error
WarningNotWritten ==
    /\ LastResponse.status = "ok" /\ LastResponse.items # <<>>
    /\ reports_exhaustion(LastResponse.remaining)
    /\ ~page_log[Len(page_log)].warned

\* the run has ended, or is ending, without a dashboard and without touching
\* the output file
EndedWithoutDashboard ==
    /\ pc \in {"exit", "raising", "raised"}
    /\ pc = "exit" => exit_code = 2
    /\ dashboard = None /\ out_file = None

\* the pages are requested in order 1, 2, 3, ..., the loop goes on exactly
\* while they are non-empty lists that do not report exhaustion, and the issues
\* of every page requested are kept
C13_PagesInOrderAndKept ==
    /\ \A i \in DOMAIN page_log : page_log[i].page = i
    /\ \A i \in 1..(Len(page_log) - 1) :
          page_log[i].response.status = "ok" /\ ~StopsPaging(page_log[i].response)
    /\ issues = KeptOfPages(page_log)
    /\ pc = "main" <=>
          (page_log = <<>> \/ (LastResponse.status = "ok" /\ ~StopsPaging(LastResponse)))
    /\ pc = "main" => page = Len(page_log) + 1

C13_WarningEndsRun ==
    /\ gen = "repo" /\ pc = "raised" /\ exit_code \in {1, 120}
    /\ Len(page_log) = 2 /\ WarningNotWritten
    /\ issues # <<>> /\ dashboard = None

(***************************************************************************)
(* The responses of the dev server to refresh requests.                    *)
(***************************************************************************)
\* connection r has answered a POST to a refresh endpoint
RefreshAnswered(r) ==
    conns[r].pc = "done" /\ conns[r].method = "POST" /\ conns[r].path \in RefreshPaths

ResultFields == {"ok", "returncode", "script", "stdout", "stderr"}

\* C14: the response to a POST to a refresh path has ok true exactly when every
\* result has returncode 0; its status is 200 when ok is true and 500 when it is
\* false; its results are one per script of the path, in order, each a record of
\* ok, returncode, script, stdout and stderr.
C14_OkIffAllScriptsExitZero ==
    \A r \in Requests :
        RefreshAnswered(r) =>
            LET resp == conns[r].response
                results == resp.payload.results
            IN  /\ resp.payload.ok \in BOOLEAN
                /\ resp.payload.ok <=> \A i \in DOMAIN results : results[i].returncode = 0
                /\ resp.payload.ok => resp.status = HTTP_OK
                /\ ~resp.payload.ok => resp.status = HTTP_INTERNAL_SERVER_ERROR
                /\ Len(results) = Len(ScriptsOf(conns[r].path))
                /\ \A i \in DOMAIN results :
                      /\ DOMAIN results[i] = ResultFields
                      /\ results[i].script = ScriptsOf(conns[r].path)[i]
                      /\ results[i].ok <=> results[i].returncode = 0

\* a refresh of both whose first script failed and whose second succeeded was
\* answered with status 500, and another refresh with status 200
C14_Witness ==
    \E r, q \in Requests :
        /\ RefreshAnswered(r) /\ conns[r].path = "/__refresh_both"
        /\ conns[r].response.payload.results[1].returncode # 0
        /\ conns[r].response.payload.results[2].returncode = 0
        /\ conns[r].response.status = HTTP_INTERNAL_SERVER_ERROR
        /\ RefreshAnswered(q) /\ conns[q].response.status = HTTP_OK

(***************************************************************************)
(* Failures of the scripts the dev server runs.                            *)
(***************************************************************************)
IsMissingResult(res) ==
    /\ ~res.ok /\ res.returncode = 2
    /\ res.stdout = <<>> /\ res.stderr = <<"Missing script">>

IsTimeoutResult(res) ==
    /\ ~res.ok /\ res.returncode = 124
    /\ res.stderr # <<>> /\ res.stderr[Len(res.stderr)] = "Timed out"

\* the child of the connection has not ended as a process
ChildRunning(c) ==
    c.pc = "wait" /\ c.child.pc \in {"build", "write", "raising", "closed"}

\* every result is of the per-script shape, fails exactly when its returncode is
\* not 0, and a refresh that has all its results is answered with them
C15_ResultsWellFormed ==
    \A r \in Requests :
        LET c == conns[r] IN
        c.method = "POST" /\ c.path \in RefreshPaths =>
            /\ \A i \in DOMAIN c.results :
                  /\ DOMAIN c.results[i] = ResultFields
                  /\ c.results[i].ok <=> c.results[i].returncode = 0
                  /\ c.results[i].returncode = 124 => IsTimeoutResult(c.results[i])
            /\ c.pc = "wait" <=> c.child # NoChild
            /\ c.pc = "done" =>
                  /\ Len(c.results) = Len(ScriptsOf(c.path))
                  /\ c.response.payload.results = c.results
                  /\ c.response.status \in {HTTP_OK, HTTP_INTERNAL_SERVER_ERROR}

\* no exception leaves _run_script: a refresh waits for a script or has been
\* answered
C15_NothingRaisesOut ==
    \A r \in Requests :
        conns[r].method = "POST" /\ conns[r].path \in RefreshPaths =>
            conns[r].pc \in {"wait", "done"}

\* a step that adds results to a connection: the child's result comes first
\* and carries the exit code the child ended with, or 124 and the 'Timed out'
\* message when the child had not ended; every other result added is that of
\* a missing script, for which no child was started
C15_FailuresBecomeResults ==
    [][\A r \in Requests :
          LET c == conns[r]
              d == conns'[r]
              first == Len(c.results) + 1
          IN  Len(d.results) >= first =>
                  \A k \in first..Len(d.results) :
                      IF k = first /\ c.child # NoChild
                      THEN /\ d.results[k].script = c.child.script
                           /\ ~IsMissingResult(d.results[k])
                           /\ ChildRunning(c) => IsTimeoutResult(d.results[k])
                           /\ ~ChildRunning(c) =>
                                 /\ d.results[k].returncode = c.child.returncode
                                 /\ d.results[k].ok <=> c.child.returncode = 0
                      ELSE IsMissingResult(d.results[k])]_vars

\* the three failures _run_script handles do become results: a missing script,
\* a timeout and a non-zero exit, as the steps and the results above say
C15_HandledFailuresAreResults == []C15_ResultsWellFormed /\ C15_FailuresBecomeResults

\* C15 as stated: no failure of a script's invocation leaves _run_script as an
\* exception: a missing script gives a result with ok false and returncode 2
\* and no child is started for it, a timeout a result with ok false, returncode
\* 124 and stderr ending in the 'Timed out' message, a non-zero exit a result
\* with ok false and that exit code; in every case the request is answered with
\* a JSON response holding the results.
C15_ScriptFailuresAreResults ==
    [](C15_ResultsWellFormed /\ C15_NothingRaisesOut) /\ C15_FailuresBecomeResults

\* a refresh of both was answered after its first script timed out and its
\* second was missing, and another refresh after its script exited non-zero
C15_HandledFailuresAnswered ==
    \E r, q \in Requests :
        /\ RefreshAnswered(r) /\ conns[r].path = "/__refresh_both"
        /\ IsTimeoutResult(conns[r].response.payload.results[1])
        /\ IsMissingResult(conns[r].response.payload.results[2])
        /\ RefreshAnswered(q)
        /\ conns[q].response.payload.results[1].returncode = 1
        /\ ~conns[q].response.payload.results[1].ok

\* a refresh of both ended with an exception and without a response after its
\* first script had given a result: the second could not be started, or what
\* it printed could not be decoded
C15_RefreshRaisedOut ==
    \E r \in Requests :
        /\ conns[r].method = "POST" /\ conns[r].path = "/__refresh_both"
        /\ conns[r].pc = "raised" /\ conns[r].response = None
        /\ Len(conns[r].results) = 1

(***************************************************************************)
(* The calendar day of a discovery timestamp.                              *)
(***************************************************************************)
\* the features of the returned document whose timestamp parses
ParsedFeatures ==
    {k \in DOMAIN ret.value.features :
        parse_iso_datetime(ret.value.features[k].date_discovered) # ValueError}

\* the UTC calendar date of the instant of feature k (a naive timestamp is
\* taken as UTC, as the sort does)
UtcDate(k) ==
    date_isoformat(Instant(parse_iso_datetime(ret.value.features[k].date_discovered)) \div 24)

\* C16 as stated: every feature whose timestamp parses is counted in the
\* time_series row of the UTC date of its instant, whatever offset the timestamp
\* carries, so features of one UTC date share a row.
C16_BucketedByUtcDate ==
    (call.kind = "build_dashboard" /\ ret # None /\ ret.value # RuntimeError) =>
        LET rows == ret.value.time_series.time_series
        IN  \A k \in ParsedFeatures :
                \E i \in DOMAIN rows :
                    /\ rows[i].date = UtcDate(k)
                    /\ rows[i].count >= Cardinality({j \in ParsedFeatures : UtcDate(j) = UtcDate(k)})

\* two features of the same UTC date were counted in rows of different dates
C16_SameUtcDateSplit ==
    /\ call.kind = "build_dashboard" /\ ret # None /\ ret.value # RuntimeError
    /\ \E j, k \in ParsedFeatures :
          /\ UtcDate(j) = UtcDate(k)
          /\ date_yyyy_mm_dd(ret.value.features[j].date_discovered)
                # date_yyyy_mm_dd(ret.value.features[k].date_discovered)
          /\ Len(ret.value.time_series.time_series) = 2

(***************************************************************************)
(* Lines that are not category headings.                                   *)
(***************************************************************************)
\* a step over a line that is no recognized heading keeps the current category;
\* with no category yet it keeps the mapping, else it adds the line's references
\* that are not mapped yet, under the current category, and keeps the others
C17_OtherLinesKeepCategory ==
    [][pc = "parse" /\ pos' = pos + 1 /\ ~LineFacts[ConsumedLine].heading =>
          /\ current_category' = current_category
          /\ IF current_category = NoneStr
             THEN mapping' = mapping
             ELSE /\ DOMAIN mapping' = DOMAIN mapping \cup LineFacts[ConsumedLine].refs
                  /\ \A n \in DOMAIN mapping' :
                        mapping'[n] = IF n \in DOMAIN mapping THEN mapping[n]
                                      ELSE current_category]_vars

\* while no recognized heading has been consumed there is no current category
\* and the mapping is empty
C17_NothingBeforeFirstHeading ==
    pc = "parse" /\ (\A i \in 1..pos : ~Heading(i)) =>
        current_category = NoneStr /\ mapping = EmptyMapping

\* C17: a line that is not a recognized category heading, heading-like or not,
\* leaves the current category unchanged; its issue references and those of the
\* following lines are added under the last recognized category until the next
\* recognized heading, and references on lines before any recognized heading
\* are never added to the mapping.
C17_CategoryPersists == []C17_NothingBeforeFirstHeading /\ C17_OtherLinesKeepCategory

\* references before the first recognized heading were left out, and after it
\* an unrecognized heading-like line and the line after that one both put
\* their references under that heading
C17_Witness ==
    /\ pc = "parse"
    /\ \E h, u, v \in 1..pos :
          /\ h < u /\ u < v
          /\ Heading(h) /\ \A i \in 1..v : Heading(i) <=> i = h
          /\ \E i \in 1..(h - 1) : \E n \in LineFacts[body_lines[i]].refs : n \notin DOMAIN mapping
          /\ body_lines[u][1] = "#"
          /\ \E n \in LineFacts[body_lines[u]].refs : mapping[n] = LineFacts[body_lines[h]].text
          /\ \E n \in LineFacts[body_lines[v]].refs \ LineFacts[body_lines[u]].refs :
                mapping[n] = LineFacts[body_lines[h]].text

(***************************************************************************)
(* The routing of POST requests.                                           *)
(***************************************************************************)
\* the scripts the module docstring gives for each endpoint
EndpointScripts ==
    [p \in RefreshPaths |->
        CASE p = "/__refresh_all" -> <<"scripts/build_dashboard_from_repo_issues.py">>
          [] p = "/__refresh_meta" -> <<"scripts/build_dashboard_from_meta_issue.py">>
          [] p = "/__refresh_both" -> <<"scripts/build_dashboard_from_meta_issue.py",
                                        "scripts/build_dashboard_from_repo_issues.py">>]

\* C18: a POST to /__refresh_all runs only the repo-issues script, one to
\* /__refresh_meta only the meta-issue script, one to /__refresh_both the
\* meta-issue script and, once that has a result of any returncode, the
\* repo-issues script; a POST to any other path runs no script and is answered
\* with status 404 and a JSON body whose ok is false.
C18_PostRouting ==
    \A r \in Requests :
        LET c == conns[r] IN
        c.method = "POST" =>
            IF c.path \in RefreshPaths
            THEN LET scripts == EndpointScripts[c.path]
                 IN  /\ Len(c.results) <= Len(scripts)
                     /\ \A i \in DOMAIN c.results : c.results[i].script = scripts[i]
                     /\ c.child # NoChild =>
                           /\ Len(c.results) < Len(scripts)
                           /\ c.child.script = scripts[Len(c.results) + 1]
                     /\ c.pc = "done" => Len(c.results) = Len(scripts)
            ELSE /\ c.pc = "done" /\ c.results = <<>> /\ c.child = NoChild
                 /\ c.response.status = HTTP_NOT_FOUND
                 /\ c.response.payload.ok = FALSE

\* a refresh of both runs the repo-issues script after the meta-issue script
\* has failed, while a POST to an unknown path has been answered with 404
C18_Witness ==
    \E r, q \in Requests :
        /\ conns[r].method = "POST" /\ conns[r].path = "/__refresh_both"
        /\ conns[r].child # NoChild /\ conns[r].child.script = Script_Repo
        /\ Len(conns[r].results) = 1 /\ conns[r].results[1].returncode = 1
        /\ conns[q].method = "POST" /\ conns[q].path \notin RefreshPaths
        /\ conns[q].response.status = HTTP_NOT_FOUND

====
